---- MODULE Spec2Model ----
(***************************************************************************)
(* The equation-system orchestration layer of nalu-wind: the collection    *)
(* EquationSystems (src/include/EquationSystem.h, lines 584-1621), its     *)
(* construction from the parsed input (load) and the per-timestep hooks it *)
(* forwards to the EquationSystem instances it owns.                       *)
(*                                                                         *)
(* The orchestration is single threaded and every operation of the         *)
(* collection runs to completion, so an operation is one action.  The      *)
(* calls an operation makes on its collaborators (the owned systems, the   *)
(* algorithm drivers, the overset updater, the realm) are recorded, in the *)
(* order the code makes them, in the variable log; log holds the calls of  *)
(* the LAST operation only.                                                *)
(***************************************************************************)
EXTENDS Integers, Sequences, FiniteSets, TLC

\* ------------------------------------------------------------------ bounds
MaxSystems == 2      \* declarations in the "systems" sequence of the input
MaxAlgs    == 3      \* global pre/post-iteration algorithm drivers in total
MaxIters   == 2      \* solve_and_update calls the driver makes per timestep

\* ------------------------------------------------------------- input sets
\* The closed set of kind tags EquationSystems::load recognises (699-768).
RecognizedKinds ==
  { "LowMachEOM", "VolumeOfFluid", "ShearStressTransport", "ChienKEpsilon",
    "WilcoxKOmega", "TurbKineticEnergy", "Enthalpy", "HeatConduction",
    "WallDistance" }

\* Kinds whose branch is a bare "new X(*this)" (715-754, 768-770).
PlainKinds ==
  RecognizedKinds \ { "LowMachEOM", "HeatConduction" }

\* An optional YAML entry: {} when the key is absent, {v} when it holds v.
Absent == {}

\* The overset entries a block of the input may hold.
OversetBlocks ==
  { [decoupled_overset_solve |-> Absent,   num_overset_correctors |-> Absent],
    [decoupled_overset_solve |-> {TRUE},   num_overset_correctors |-> Absent],
    [decoupled_overset_solve |-> {FALSE},  num_overset_correctors |-> {3}] }

NoBlock == [decoupled_overset_solve |-> Absent, num_overset_correctors |-> Absent]

\* Kind tags tried in the load specification: the two guarded branches, a
\* plain one and a tag outside the closed set.
LoadKinds == { "LowMachEOM", "HeatConduction", "Enthalpy", "Bogus" }

\* Kind tag tried in the timestep specification, where only the number of
\* owned systems matters.
StepKinds == { "Enthalpy" }

Declarations(kinds, blocks) ==
  [kind : kinds, block : blocks]

SeqsUpTo(S, n) ==
  UNION { [1..k -> S] : k \in 0..n }

\* Values the collection-level defaults may hold before load (their
\* in-class initialisers are in EquationSystems.h).
InitIters == {1, 2}

\* "solver_system_specification" maps (equation name -> solver block name).
\* A map is a function on the names it has; "n_a" is a name a document may
\* well give to a block.
OneSolver ==
  [ n \in {"enthalpy"} |-> "solve_scalar" ]

SolverMaps ==
  { << >>, OneSolver,
    [ n \in {"enthalpy", "pressure"} |->
        IF n = "enthalpy" THEN "solve_scalar" ELSE "solve_cont" ],
    [ n \in {"pressure"} |-> "n_a" ] }

EquationNames == {"enthalpy", "pressure", "velocity"}

VARIABLES
  yaml,                          \* the parsed "equation_systems" node
  hasOverset_,                   \* Realm::hasOverset_
  matrixFree,                    \* Realm::matrix_free()
  NALU_HAS_MATRIXFREE,           \* the build flag
  decoupledOversetGlobalFlag_,   \* EquationSystems members
  numOversetItersDefault_,
  preLoad,                       \* history: the two defaults before load
  equationSystemVector_,         \* ids of the owned systems, in push order
  eqSys,                         \* id -> the EquationSystem object
  preIterAlgDriver_,             \* ids of the global pre-iteration drivers
  postIterAlgDriver_,            \* ids of the global post-iteration drivers
  converged,                     \* id -> what system_is_converged() answers
  overallConvergence,            \* what the last solve_and_update returned
  status,                        \* how load ended ("none" before it)
  lastOp,                        \* the operation whose calls log holds
  log,                           \* the calls of the last operation
  timestepOps,                   \* history: operations of this timestep
  solverSpecMap_,                \* equation name -> solver block name
  args,                          \* the last operation's inputs
  ret,                           \* what the last operation returned
  managers,                      \* FieldManager id -> its numStates_
  meta_,                         \* field name -> the declared field
  metaBefore,                    \* history: meta_ before the last call
  registerHistory                \* history: the register_field calls made

vars ==
  << yaml, hasOverset_, matrixFree, NALU_HAS_MATRIXFREE,
     decoupledOversetGlobalFlag_, numOversetItersDefault_, preLoad,
     equationSystemVector_, eqSys, preIterAlgDriver_, postIterAlgDriver_,
     converged, overallConvergence, status, lastOp, log, timestepOps,
     solverSpecMap_, args, ret, managers, meta_, metaBefore,
     registerHistory >>

\* The mesh database and the FieldManagers over it.
fieldVars ==
  << managers, meta_, metaBefore, registerHistory >>

\* ----------------------------------------------------------------- events
\* A call: the kind of object called, its id (0 for a singleton), the method.
Ev(kind, id, hook) ==
  << kind, id, hook >>

IsSys(e) ==
  e[1] = "sys"

\* ------------------------------------------------------------------- load
\* get_if_present(node, key, result, default): the entry when present,
\* the default otherwise.
get_if_present(entry, default) ==
  IF entry /= Absent THEN CHOOSE v \in entry : TRUE ELSE default

query_for_overset ==
  hasOverset_

\* Mutant of read_global_overset: the overset guard of line 679 dropped.
read_global_overset_unguarded(node, cur) ==
  [ flag  |-> get_if_present(node.decoupled_overset_solve, cur.flag),
    iters |-> get_if_present(node.num_overset_correctors, cur.iters),
    reads |-> << Ev("yaml", 0, "decoupled_overset_solve"),
                 Ev("yaml", 0, "num_overset_correctors") >> ]

\* The collection-level defaults after lines 679-686.
read_global_overset(node, cur) ==
  IF query_for_overset
    THEN [ flag  |-> get_if_present(node.decoupled_overset_solve, cur.flag),
           iters |-> get_if_present(node.num_overset_correctors, cur.iters),
           reads |-> << Ev("yaml", 0, "decoupled_overset_solve"),
                        Ev("yaml", 0, "num_overset_correctors") >> ]
    ELSE [ flag |-> cur.flag, iters |-> cur.iters, reads |-> << >> ]

\* Which object the branch for one kind tag leaves in eqSys (699-780):
\* "new" a constructed system, "null" eqSys still 0, "throw" the
\* HeatConduction runtime_error, "unknown" the final else branch.
new_equation_system(kind) ==
  CASE kind = "LowMachEOM" ->
         IF matrixFree
           THEN (IF NALU_HAS_MATRIXFREE THEN "new" ELSE "null")
           ELSE "new"
    [] kind = "HeatConduction" ->
         IF NALU_HAS_MATRIXFREE
           THEN (IF matrixFree THEN "new" ELSE "throw")
           ELSE "null"
    [] kind \in PlainKinds -> "new"
    [] OTHER -> "unknown"

\* What a build may make of the dereference of a null eqSys (785-790).
NullDerefOutcomes ==
  { "crash", "skipped" }

\* A freshly constructed EquationSystem: the in-class initialisers of
\* numOversetIters_ and decoupledOverset_ (361-362).
construct(kind) ==
  [ kind             |-> kind,
    decoupledOverset_ |-> FALSE,
    numOversetIters_  |-> 1,
    seeded            |-> Absent,
    calls             |-> << "construct" >> ]

\* Lines 785-786: the collection-level defaults pushed onto the system.
seed(s, flag, iters) ==
  [ s EXCEPT !.decoupledOverset_ = flag,
             !.numOversetIters_  = iters,
             !.seeded            = { << flag, iters >> },
             !.calls             = Append(@, "seed") ]

\* EquationSystem::load on the system's own block: an entry of the block
\* overrides the value the system holds.
EquationSystem_load(s, block) ==
  [ s EXCEPT !.decoupledOverset_ =
               get_if_present(block.decoupled_overset_solve, @),
             !.numOversetIters_  =
               get_if_present(block.num_overset_correctors, @),
             !.calls             = Append(@, "load") ]

\* Mutant of seed_and_load: the system's own load first, the seeding after.
seed_and_load_reordered(s, block, flag, iters) ==
  seed(EquationSystem_load(s, block), flag, iters)

\* Lines 782-790 for one constructed system: seed, then its own load.
seed_and_load(s, block, flag, iters) ==
  EquationSystem_load(seed(s, flag, iters), block)

\* The calls load made on system id, in order.
SysCalls(id, s) ==
  [ j \in 1..Len(s.calls) |-> Ev("sys", id, s.calls[j]) ]

\* Mutant of load_systems: an unrecognised kind is skipped and the loop
\* goes on with the next declaration.
RECURSIVE load_systems_skip_unknown(_, _, _, _, _, _)
load_systems_skip_unknown(systems, k, flag, iters, ub, acc) ==
  IF k > Len(systems) THEN acc
  ELSE
    LET d   == systems[k]
        out == new_equation_system(d.kind)
    IN  CASE out = "unknown" ->
               load_systems_skip_unknown(systems, k + 1, flag, iters, ub,
                 [ acc EXCEPT !.status = "UnknownEquationSystemKind" ])
          [] out = "throw" ->
               [ acc EXCEPT !.status = "runtime_error" ]
          [] out = "null" ->
               IF ub = "crash"
                 THEN [ acc EXCEPT !.status = "crash",
                                   !.log    = Append(@, Ev("null", k, "seed")) ]
                 ELSE load_systems_skip_unknown(systems, k + 1, flag, iters, ub,
                        [ acc EXCEPT !.log = @ \o << Ev("null", k, "seed"),
                                                    Ev("null", k, "load") >> ])
          [] OTHER ->
               LET s == seed_and_load(construct(d.kind), d.block, flag, iters)
               IN  load_systems_skip_unknown(systems, k + 1, flag, iters, ub,
                     [ acc EXCEPT
                         !.vec = Append(@, k),
                         !.sys = [ i \in DOMAIN @ \cup {k} |->
                                     IF i = k THEN s ELSE @[i] ],
                         !.log = @ \o SysCalls(k, s) ])

\* The for loop of lines 694-791 from declaration k on.  acc holds the
\* vector, the objects, the calls and the outcome so far.  A system takes
\* the index of its declaration as id; its constructor pushes it onto
\* equationSystemVector_ (788-789).  Lines 785-790 dereference eqSys, which
\* is null when no branch constructed a system: undefined behaviour, whose
\* outcome ub is either the fault ("crash") or the dereferences compiled
\* away as unreachable, the loop going on with no system ("skipped").
RECURSIVE load_systems(_, _, _, _, _, _)
load_systems(systems, k, flag, iters, ub, acc) ==
  IF k > Len(systems) THEN acc
  ELSE
    LET d   == systems[k]
        out == new_equation_system(d.kind)
    IN  CASE out = "unknown" ->
               [ acc EXCEPT !.status = "UnknownEquationSystemKind" ]
          [] out = "throw" ->
               [ acc EXCEPT !.status = "runtime_error" ]
          [] out = "null" ->
               IF ub = "crash"
                 THEN [ acc EXCEPT !.status = "crash",
                                   !.log    = Append(@, Ev("null", k, "seed")) ]
                 ELSE load_systems(systems, k + 1, flag, iters, ub,
                        [ acc EXCEPT !.log = @ \o << Ev("null", k, "seed"),
                                                    Ev("null", k, "load") >> ])
          [] OTHER ->
               LET s == seed_and_load(construct(d.kind), d.block, flag, iters)
               IN  load_systems(systems, k + 1, flag, iters, ub,
                     [ acc EXCEPT
                         !.vec = Append(@, k),
                         !.sys = [ i \in DOMAIN @ \cup {k} |->
                                     IF i = k THEN s ELSE @[i] ],
                         !.log = @ \o SysCalls(k, s) ])

\* EquationSystems::load (669-794).
load ==
  /\ status = "none"
  /\ \E ub \in NullDerefOutcomes :
     LET g   == read_global_overset(yaml,
                  [ flag  |-> decoupledOversetGlobalFlag_,
                    iters |-> numOversetItersDefault_ ])
         res == load_systems(yaml.systems, 1, g.flag, g.iters, ub,
                  [ vec |-> equationSystemVector_, sys |-> eqSys,
                    log |-> g.reads, status |-> "ok" ])
     IN  /\ decoupledOversetGlobalFlag_' = g.flag
         /\ numOversetItersDefault_' = g.iters
         /\ equationSystemVector_' = res.vec
         /\ eqSys' = res.sys
         /\ converged' = [ i \in DOMAIN res.sys |-> FALSE ]
         /\ status' = res.status
         /\ log' = res.log
  /\ solverSpecMap_' = yaml.solver_system_specification
  /\ lastOp' = "load"
  /\ UNCHANGED << yaml, hasOverset_, matrixFree, NALU_HAS_MATRIXFREE, preLoad,
                  preIterAlgDriver_, postIterAlgDriver_, overallConvergence,
                  timestepOps, args, ret, fieldVars >>

\* ------------------------------------------------------- timestep hooks
\* Mutant of for_each_system: the loop starts one element late.
for_each_system_off_by_one(hook) ==
  [ j \in 1..(Len(equationSystemVector_) - 1) |->
      Ev("sys", equationSystemVector_[j + 1], hook) ]

\* "for (ii = begin; ii != end; ++ii) (*ii)->hook()": one call per owned
\* system, in vector order.
for_each_system(hook) ==
  [ j \in 1..Len(equationSystemVector_) |->
      Ev("sys", equationSystemVector_[j], hook) ]

\* Mutant of pre_iter_work: the overset updater runs after the algorithms.
pre_iter_work_overset_last ==
  << Ev("eqs", 0, "pre_iter_work") >>
  \o [ j \in 1..Len(preIterAlgDriver_) |->
         Ev("alg", preIterAlgDriver_[j], "execute") ]
  \o (IF hasOverset_ THEN << Ev("overset", 0, "execute") >> ELSE << >>)

\* EquationSystems::pre_iter_work (1577-1586), entered and then its body.
pre_iter_work ==
  << Ev("eqs", 0, "pre_iter_work") >>
  \o (IF hasOverset_ THEN << Ev("overset", 0, "execute") >> ELSE << >>)
  \o [ j \in 1..Len(preIterAlgDriver_) |->
         Ev("alg", preIterAlgDriver_[j], "execute") ]

\* EquationSystems::post_iter_work (1588-1594), entered and then its body.
post_iter_work ==
  << Ev("eqs", 0, "post_iter_work") >>
  \o [ j \in 1..Len(postIterAlgDriver_) |->
         Ev("alg", postIterAlgDriver_[j], "execute") ]

\* The three hooks the first loop of solve_and_update calls on one system.
IterHooks ==
  << "pre_iter_work", "solve_and_update", "post_iter_work" >>

\* Mutant of system_pass: one loop per hook instead of one loop per system.
system_pass_split ==
  [ j \in 1..(3 * Len(equationSystemVector_)) |->
      Ev("sys",
         equationSystemVector_[((j - 1) % Len(equationSystemVector_)) + 1],
         IterHooks[((j - 1) \div Len(equationSystemVector_)) + 1]) ]

\* The first loop of solve_and_update (1393-1398).
system_pass ==
  [ j \in 1..(3 * Len(equationSystemVector_)) |->
      Ev("sys", equationSystemVector_[((j - 1) \div 3) + 1],
         IterHooks[((j - 1) % 3) + 1]) ]

\* The memory diagnostic (1400-1405).
memory_diagnostic(diag) ==
  IF diag THEN << Ev("realm", 0, "provide_memory_summary") >> ELSE << >>

\* The second loop of solve_and_update (1407-1410).
dep_pass ==
  for_each_system("post_iter_work_dep")

\* Mutant of check_convergence: the loop stops at the first system that
\* answers false.
RECURSIVE check_convergence_short(_, _, _)
check_convergence_short(answers, j, acc) ==
  IF j > Len(equationSystemVector_) \/ ~acc.overall THEN acc
  ELSE
    LET id == equationSystemVector_[j]
    IN  check_convergence_short(answers, j + 1,
          [ overall |-> answers[id],
            log     |-> Append(acc.log, Ev("sys", id, "system_is_converged")) ])

\* The convergence loop of solve_and_update (1415-1422) from position j on:
\* the queries made and the value of overallConvergence, answers being what
\* each system's system_is_converged() returns.
RECURSIVE check_convergence(_, _, _)
check_convergence(answers, j, acc) ==
  IF j > Len(equationSystemVector_) THEN acc
  ELSE
    LET id == equationSystemVector_[j]
    IN  check_convergence(answers, j + 1,
          [ overall |-> IF ~answers[id] THEN FALSE ELSE acc.overall,
            log     |-> Append(acc.log, Ev("sys", id, "system_is_converged")) ])

\* Mutant of solve_and_update_body: post_iter_work_dep folded into the
\* front of the call.
solve_and_update_body_dep_first(answers, diag) ==
  LET conv == check_convergence(answers, 1, [ overall |-> TRUE, log |-> << >> ])
  IN  [ log    |-> pre_iter_work \o dep_pass \o system_pass
                     \o memory_diagnostic(diag) \o post_iter_work \o conv.log,
        result |-> conv.overall ]

\* Mutant of solve_and_update_body: the collection's post_iter_work before
\* the post_iter_work_dep loop.
solve_and_update_body_post_early(answers, diag) ==
  LET conv == check_convergence(answers, 1, [ overall |-> TRUE, log |-> << >> ])
  IN  [ log    |-> pre_iter_work \o system_pass \o memory_diagnostic(diag)
                     \o post_iter_work \o dep_pass \o conv.log,
        result |-> conv.overall ]

\* Mutant of solve_and_update_body: with no owned system the operation
\* returns at once, the collection-level hooks left out.
solve_and_update_body_skip_empty(answers, diag) ==
  LET conv == check_convergence(answers, 1, [ overall |-> TRUE, log |-> << >> ])
  IN  IF equationSystemVector_ = << >>
      THEN [ log |-> << >>, result |-> TRUE ]
      ELSE [ log    |-> pre_iter_work \o system_pass \o memory_diagnostic(diag)
                          \o dep_pass \o post_iter_work \o conv.log,
             result |-> conv.overall ]

\* EquationSystems::solve_and_update (1386-1425): its calls and its result.
solve_and_update_body(answers, diag) ==
  LET conv == check_convergence(answers, 1, [ overall |-> TRUE, log |-> << >> ])
  IN  [ log    |-> pre_iter_work \o system_pass \o memory_diagnostic(diag)
                     \o dep_pass \o post_iter_work \o conv.log,
        result |-> conv.overall ]

\* Mutant of DriverAllows: any operation at any time once load is done.
DriverAllowsAny(op) ==
  /\ status = "ok"
  /\ Len(timestepOps) < 4

\* Mutant of DriverAllows: registrations are accepted at any time.
DriverAllowsLate(op) ==
  LET n    == Len(timestepOps)
      last == IF n = 0 THEN "none" ELSE timestepOps[n]
      iters == Cardinality({ i \in 1..n : timestepOps[i] = "solve_and_update" })
  IN  /\ status = "ok"
      /\ CASE op = "register" -> TRUE
           [] op = "pre_timestep_work" ->
                last \in { "none", "dump_eq_time" }
           [] op = "predict_state" -> last = "pre_timestep_work"
           [] op = "solve_and_update" ->
                \/ last = "predict_state"
                \/ last = "solve_and_update" /\ iters < MaxIters
           [] op = "post_converged_work" -> last = "solve_and_update"
           [] op = "provide_output" -> last = "post_converged_work"
           [] op = "dump_eq_time" -> last = "provide_output"
           [] OTHER -> FALSE

\* The order in which the time integrator calls the collection within one
\* timestep (section 4.4 of the design): the operation op may come next.
\* The integrator itself is outside the files modelled here.
DriverAllows(op) ==
  LET n    == Len(timestepOps)
      last == IF n = 0 THEN "none" ELSE timestepOps[n]
      iters == Cardinality({ i \in 1..n : timestepOps[i] = "solve_and_update" })
  IN  /\ status = "ok"
      /\ CASE op = "register" -> n = 0
           [] op = "pre_timestep_work" ->
                last \in { "none", "dump_eq_time" }
           [] op = "predict_state" -> last = "pre_timestep_work"
           [] op = "solve_and_update" ->
                \/ last = "predict_state"
                \/ last = "solve_and_update" /\ iters < MaxIters
           [] op = "post_converged_work" -> last = "solve_and_update"
           [] op = "provide_output" -> last = "post_converged_work"
           [] op = "dump_eq_time" -> last = "provide_output"
           [] OTHER -> FALSE

\* History: op joins the operations of the timestep (pre_timestep_work
\* opens a new one).
Record(op) ==
  /\ lastOp' = op
  /\ timestepOps' = IF op = "pre_timestep_work" /\ Len(timestepOps) > 0
                      /\ timestepOps[Len(timestepOps)] = "dump_eq_time"
                    THEN << op >> ELSE Append(timestepOps, op)

Frame ==
  UNCHANGED << yaml, hasOverset_, matrixFree, NALU_HAS_MATRIXFREE,
               decoupledOversetGlobalFlag_, numOversetItersDefault_, preLoad,
               equationSystemVector_, eqSys, status, solverSpecMap_,
               args, ret, fieldVars >>

\* A forwarding operation: hook on every owned system, nothing else.
Forward(op) ==
  /\ DriverAllows(op)
  /\ log' = for_each_system(op)
  /\ Record(op)
  /\ Frame
  /\ UNCHANGED << preIterAlgDriver_, postIterAlgDriver_, converged,
                  overallConvergence >>

\* EquationSystems::pre_timestep_work (1543-1551).
pre_timestep_work ==
  Forward("pre_timestep_work")

\* EquationSystems::predict_state (1474-1481).
predict_state ==
  Forward("predict_state")

\* EquationSystems::post_converged_work (1556-1563).
post_converged_work ==
  Forward("post_converged_work")

\* EquationSystems::provide_output (1531-1538).
provide_output ==
  Forward("provide_output")

\* EquationSystems::dump_eq_time (1461-1469).
dump_eq_time ==
  Forward("dump_eq_time")

\* EquationSystems::solve_and_update (1386-1425).  What each system answers
\* to system_is_converged() after its solve is the systems' business.
solve_and_update ==
  /\ DriverAllows("solve_and_update")
  /\ \E answers \in [ DOMAIN eqSys -> BOOLEAN ], diag \in BOOLEAN :
       LET r == solve_and_update_body(answers, diag)
       IN  /\ log' = r.log
           /\ overallConvergence' = r.result
           /\ converged' = answers
  /\ Record("solve_and_update")
  /\ Frame
  /\ UNCHANGED << preIterAlgDriver_, postIterAlgDriver_ >>

\* A global algorithm driver is appended to preIterAlgDriver_ or to
\* postIterAlgDriver_ while the systems register their algorithms; drivers
\* are numbered in the order they are created.
NumAlgs ==
  Len(preIterAlgDriver_) + Len(postIterAlgDriver_)

register_pre_iter_alg ==
  /\ DriverAllows("register")
  /\ NumAlgs < MaxAlgs
  /\ preIterAlgDriver_' = Append(preIterAlgDriver_, NumAlgs + 1)
  /\ log' = << >>
  /\ lastOp' = "register"
  /\ Frame
  /\ UNCHANGED << postIterAlgDriver_, converged, overallConvergence,
                  timestepOps >>

register_post_iter_alg ==
  /\ DriverAllows("register")
  /\ NumAlgs < MaxAlgs
  /\ postIterAlgDriver_' = Append(postIterAlgDriver_, NumAlgs + 1)
  /\ log' = << >>
  /\ lastOp' = "register"
  /\ Frame
  /\ UNCHANGED << preIterAlgDriver_, converged, overallConvergence,
                  timestepOps >>

\* ------------------------------------------------- queries after load
\* What the remaining operations leave alone: the document, the realm, the
\* owned systems and the timestep history.
SetupFrame ==
  UNCHANGED << yaml, hasOverset_, matrixFree, NALU_HAS_MATRIXFREE,
               decoupledOversetGlobalFlag_, numOversetItersDefault_, preLoad,
               equationSystemVector_, eqSys, preIterAlgDriver_,
               postIterAlgDriver_, converged, overallConvergence,
               timestepOps, solverSpecMap_, fieldVars >>

\* A value returned, and an exception thrown instead of one.
Returned(v) ==
  [ outcome |-> "ok", value |-> {v} ]

Thrown(error) ==
  [ outcome |-> error, value |-> {} ]

\* Mutant of solver_block_name: a missing key falls back on the placeholder.
solver_block_name_fallback(eqName) ==
  IF eqName \in DOMAIN solverSpecMap_
  THEN Returned(solverSpecMap_[eqName])
  ELSE Returned("n_a")

\* The body of get_solver_block_name (799-814): solverSpecMap_.find(eqName),
\* the mapped name when found, a runtime_error otherwise.
solver_block_name(eqName) ==
  IF eqName \in DOMAIN solverSpecMap_
  THEN Returned(solverSpecMap_[eqName])
  ELSE Thrown("MissingSolverMapping")

\* EquationSystems::get_solver_block_name (799-814), a const method.
get_solver_block_name ==
  /\ status = "ok"
  /\ \E eqName \in EquationNames :
       LET r == solver_block_name(eqName)
       IN  /\ args' = [ eqName |-> eqName ]
           /\ ret' = r
           /\ status' = IF r.outcome = "ok" THEN "ok" ELSE r.outcome
  /\ log' = << >>
  /\ lastOp' = "get_solver_block_name"
  /\ SetupFrame

\* ----------------------------------------------------------- registration
\* The mesh database's parts: a surface with two face subsets, an unranked
\* part one of whose subsets is an element block, and the subsets themselves
\* (leaves: parts without subsets).
MeshParts ==
  [ wall       |-> [ rank |-> "FACE_RANK", topo |-> "INVALID_TOPOLOGY",
                     subsets |-> << "wall_quad4", "wall_tri3" >> ],
    mixed      |-> [ rank |-> "INVALID_RANK", topo |-> "INVALID_TOPOLOGY",
                     subsets |-> << "wall_quad4", "block_hex8", "wall_tri3" >> ],
    wall_quad4 |-> [ rank |-> "FACE_RANK", topo |-> "QUAD_4",
                     subsets |-> << >> ],
    wall_tri3  |-> [ rank |-> "FACE_RANK", topo |-> "TRI_3",
                     subsets |-> << >> ],
    block_hex8 |-> [ rank |-> "ELEMENT_RANK", topo |-> "HEX_8",
                     subsets |-> << >> ] ]

\* Names a caller may pass: the parts' and one the mesh does not have.
TargetNames ==
  DOMAIN MeshParts \cup {"nosuch"}

\* Names tried for the second part of a two-part condition (the slave of a
\* periodic pair, the opposing side of a non-conformal one).
OpposingNames ==
  {"wall_tri3", "wall", "nosuch"}

\* meta_data.side_rank() of a three-dimensional mesh.
side_rank == "FACE_RANK"

\* meta_data.get_part(name): the part, or null (no part).
get_part(name) ==
  IF name \in DOMAIN MeshParts THEN {name} ELSE {}

\* A call carrying a part and a topology.
Call(kind, id, hook, part, topo) ==
  << kind, id, hook, part, topo >>

\* Output on the log stream.
Sorry(message, name) ==
  Call("out", 0, message, name, "none")

\* Mutant of forward_bc: the systems are told before the realm.
forward_bc_systems_first(hook, part) ==
  [ k \in 1..Len(equationSystemVector_) |->
      Call("sys", equationSystemVector_[k], hook, part, MeshParts[part].topo) ]
  \o << Call("realm", 0, hook, part, MeshParts[part].topo) >>

\* One accepted subset (975-979 and alike): the realm, then every owned
\* system in vector order, with the same part and topology.
forward_bc(hook, part) ==
  << Call("realm", 0, hook, part, MeshParts[part].topo) >> \o
  [ k \in 1..Len(equationSystemVector_) |->
      Call("sys", equationSystemVector_[k], hook, part, MeshParts[part].topo) ]

\* The loop over targetPart->subsets() (964-980, 1070-1086).  A subset that
\* is not of side rank is reported; the members that are "fatal" then throw,
\* the others go on to the next subset.
RECURSIVE bc_subsets(_, _, _, _, _)
bc_subsets(hook, subsets, i, fatal, acc) ==
  IF i > Len(subsets)
  THEN [ log |-> acc, status |-> "ok" ]
  ELSE LET part == subsets[i]
       IN  IF MeshParts[part].rank /= side_rank
           THEN IF fatal
                THEN [ log |-> Append(acc, Sorry("part is not a face", part)),
                       status |-> "WrongEntityRank" ]
                ELSE bc_subsets(hook, subsets, i + 1, fatal,
                       Append(acc, Sorry("part is not a face", part)))
           ELSE bc_subsets(hook, subsets, i + 1, fatal,
                  acc \o forward_bc(hook, part))

\* The body the wall, inflow, open, symmetry and ABL-top members share: a
\* missing part is reported, and only the fatal members throw on it.
register_bc(hook, targetName, fatal) ==
  IF get_part(targetName) = {}
  THEN [ log |-> << Sorry("no part name found", targetName) >>,
         status |-> IF fatal THEN "UnknownPart" ELSE "ok" ]
  ELSE bc_subsets(hook, MeshParts[targetName].subsets, 1, fatal, << >>)

RegisterBc(hook, fatal) ==
  /\ status = "ok"
  /\ \E targetName \in TargetNames :
       LET r == register_bc(hook, targetName, fatal)
       IN  /\ args' = [ targetName |-> targetName ]
           /\ log' = r.log
           /\ status' = r.status
  /\ lastOp' = hook
  /\ ret' = << >>
  /\ SetupFrame

\* EquationSystems::register_wall_bc (951-982): reports, never throws.
register_wall_bc ==
  RegisterBc("register_wall_bc", FALSE)

\* EquationSystems::register_inflow_bc (987-1017): reports, never throws.
register_inflow_bc ==
  RegisterBc("register_inflow_bc", FALSE)

\* EquationSystems::register_open_bc (1022-1051): reports, never throws.
register_open_bc ==
  RegisterBc("register_open_bc", FALSE)

\* EquationSystems::register_symmetry_bc (1056-1088): reports and throws.
register_symmetry_bc ==
  RegisterBc("register_symmetry_bc", TRUE)

\* EquationSystems::register_abltop_bc (1093-1124): reports and throws.
register_abltop_bc ==
  RegisterBc("register_abltop_bc", TRUE)

\* Mutant of periodic_bc: the owned systems are told as well.
periodic_bc_to_systems(master, slave) ==
  IF get_part(master) = {}
  THEN [ log |-> << Sorry("no part name found", master) >>,
         status |-> "UnknownPart" ]
  ELSE IF get_part(slave) = {}
  THEN [ log |-> << Sorry("no part name found", slave) >>,
         status |-> "UnknownPart" ]
  ELSE [ log |-> << Call("realm", 0, "register_periodic_bc", master, slave) >>
                 \o [ k \in 1..Len(equationSystemVector_) |->
                        Call("sys", equationSystemVector_[k],
                             "register_periodic_bc", master, slave) ],
         status |-> "ok" ]

\* The body of register_periodic_bc (1137-1170): both parts are looked up;
\* a missing master, then a missing slave, throws; the subset counts are
\* compared and a difference only reported; the realm is told once.
periodic_bc(master, slave) ==
  IF get_part(master) = {}
  THEN [ log |-> << Sorry("no part name found", master) >>,
         status |-> "UnknownPart" ]
  ELSE IF get_part(slave) = {}
  THEN [ log |-> << Sorry("no part name found", slave) >>,
         status |-> "UnknownPart" ]
  ELSE [ log |->
           ( IF Len(MeshParts[master].subsets) /= Len(MeshParts[slave].subsets)
             THEN << Sorry("subsets do not match in size", master) >>
             ELSE << >> )
           \o ( IF Len(MeshParts[master].subsets) > 1
                THEN << Sorry("surface has subsets active", master) >>
                ELSE << >> )
           \o << Call("realm", 0, "register_periodic_bc", master, slave) >>,
         status |-> "ok" ]

\* EquationSystems::register_periodic_bc (1129-1171).
register_periodic_bc ==
  /\ status = "ok"
  /\ \E master \in TargetNames, slave \in OpposingNames :
       LET r == periodic_bc(master, slave)
       IN  /\ args' = [ targetNameMaster |-> master, targetNameSlave |-> slave ]
           /\ log' = r.log
           /\ status' = r.status
  /\ lastOp' = "register_periodic_bc"
  /\ ret' = << >>
  /\ SetupFrame

\* The part vectors of register_non_conformal_bc (1182-1206): every name is
\* looked up, a missing one is reported, and what the look-up gave, null
\* included, is pushed.
nc_lookup(names) ==
  [ k \in 1..Len(names) |->
      IF get_part(names[k]) = {} THEN "null" ELSE names[k] ]

nc_reports(names) ==
  LET missing == SelectSeq(names, LAMBDA n : get_part(n) = {})
  IN  [ k \in 1..Len(missing) |-> Sorry("no part name found", missing[k]) ]

\* The loop over the current parts (1214-1234).  currentMeshPartVec[k] is
\* dereferenced whether or not the look-up found it: on a null the behaviour
\* is undefined (ub: a crash, or the loop body falling through).
RECURSIVE nc_current(_, _, _, _)
nc_current(parts, k, ub, acc) ==
  IF k > Len(parts)
  THEN [ log |-> acc, status |-> "ok" ]
  ELSE IF parts[k] = "null"
  THEN IF ub = "crash"
       THEN [ log |-> Append(acc, Call("null", 0, "subsets", "null", "none")),
              status |-> "crash" ]
       ELSE nc_current(parts, k + 1, ub,
              Append(acc, Call("null", 0, "subsets", "null", "none")))
  ELSE LET r == bc_subsets("register_non_conformal_bc",
                  MeshParts[parts[k]].subsets, 1, TRUE, acc)
       IN  IF r.status /= "ok" THEN r
           ELSE nc_current(parts, k + 1, ub, r.log)

non_conformal_bc(currentNames, opposingNames, ub) ==
  nc_current(nc_lookup(currentNames), 1, ub,
    nc_reports(currentNames) \o nc_reports(opposingNames)
    \o << Call("realm", 0, "setup_non_conformal_bc",
               nc_lookup(currentNames), nc_lookup(opposingNames)) >>)

\* EquationSystems::register_non_conformal_bc (1176-1235), with one current
\* and one opposing part name.
register_non_conformal_bc ==
  /\ status = "ok"
  /\ \E current \in TargetNames, opposing \in OpposingNames,
        ub \in NullDerefOutcomes :
       LET r == non_conformal_bc(<< current >>, << opposing >>, ub)
       IN  /\ args' = [ currentPartNameVec_ |-> << current >>,
                        opposingPartNameVec_ |-> << opposing >> ]
           /\ log' = r.log
           /\ status' = r.status
  /\ lastOp' = "register_non_conformal_bc"
  /\ ret' = << >>
  /\ SetupFrame

\* The loop of register_interior_algorithm (926-944): a missing part throws,
\* a part that is not of element rank throws, any other is handed to the
\* realm and to every owned system.
RECURSIVE interior_algorithm(_, _, _)
interior_algorithm(targetNames, k, acc) ==
  IF k > Len(targetNames)
  THEN [ log |-> acc, status |-> "ok" ]
  ELSE IF get_part(targetNames[k]) = {}
  THEN [ log |-> acc, status |-> "UnknownPart" ]
  ELSE IF MeshParts[targetNames[k]].rank /= "ELEMENT_RANK"
  THEN [ log |-> acc, status |-> "WrongEntityRank" ]
  ELSE interior_algorithm(targetNames, k + 1,
         acc \o << Call("realm", 0, "register_interior_algorithm",
                        targetNames[k], "none") >>
             \o [ j \in 1..Len(equationSystemVector_) |->
                    Call("sys", equationSystemVector_[j],
                         "register_interior_algorithm", targetNames[k],
                         "none") ])

\* Target name vectors: one name, or two.
TargetVectors ==
  { << n >> : n \in TargetNames }
  \cup { << "block_hex8", n >> : n \in TargetNames }

\* EquationSystems::register_interior_algorithm (921-946).
register_interior_algorithm ==
  /\ status = "ok"
  /\ \E targetNames \in TargetVectors :
       LET r == interior_algorithm(targetNames, 1, << >>)
       IN  /\ args' = [ targetNames |-> targetNames ]
           /\ log' = r.log
           /\ status' = r.status
  /\ lastOp' = "register_interior_algorithm"
  /\ ret' = << >>
  /\ SetupFrame

\* create_part_vec (834-858): the parts of the names in order; a missing
\* part throws, and with element_rank set so does one not of element rank.
RECURSIVE create_part_vec(_, _, _, _)
create_part_vec(names, element_rank, k, acc) ==
  IF k > Len(names)
  THEN [ parts |-> acc, status |-> "ok" ]
  ELSE IF get_part(names[k]) = {}
  THEN [ parts |-> acc, status |-> "UnknownPart" ]
  ELSE IF element_rank /\ MeshParts[names[k]].rank /= "ELEMENT_RANK"
  THEN [ parts |-> acc, status |-> "WrongEntityRank" ]
  ELSE create_part_vec(names, element_rank, k + 1, Append(acc, names[k]))

\* The field "element_volume" as declare_field and put_field_on_mesh leave
\* it (902-903, 914-915).
element_volume(parts) ==
  [ rank |-> "ELEMENT_RANK", type |-> "ScalarFieldType", numStates |-> 1,
    numComponents |-> 1,
    parts |-> ( IF "element_volume" \in DOMAIN meta_
                THEN meta_["element_volume"].parts ELSE {} )
              \cup { parts[k] : k \in 1..Len(parts) } ]

\* The body of register_element_fields (899-915): the field is declared
\* first, then the names are resolved, then every system is told of every
\* part, then the field is put on the parts.
element_fields(targetNames) ==
  LET v == create_part_vec(targetNames, TRUE, 1, << >>)
      declared == << Call("meta", 0, "declare_field", "element_volume",
                          "none") >>
      told(part) == [ j \in 1..Len(equationSystemVector_) |->
                        Call("sys", equationSystemVector_[j],
                             "register_element_fields", part,
                             MeshParts[part].topo) ]
      RECURSIVE each(_)
      each(k) == IF k > Len(v.parts) THEN << >>
                 ELSE told(v.parts[k]) \o each(k + 1)
  IN  IF v.status /= "ok"
      THEN [ log |-> declared, status |-> v.status, parts |-> << >> ]
      ELSE [ log |-> declared \o each(1)
                     \o << Call("meta", 0, "put_field_on_mesh",
                                "element_volume", "none") >>,
             status |-> "ok", parts |-> v.parts ]

\* EquationSystems::register_element_fields (896-916), for callers passing
\* the given target names.
RegisterElementFields(targets) ==
  /\ status = "ok"
  /\ \E targetNames \in targets :
       LET r == element_fields(targetNames)
       IN  /\ args' = [ targetNames |-> targetNames ]
           /\ log' = r.log
           /\ status' = r.status
           /\ metaBefore' = meta_
           /\ meta_' = [ n \in DOMAIN meta_ \cup {"element_volume"} |->
                           IF n = "element_volume"
                           THEN element_volume(r.parts) ELSE meta_[n] ]
  /\ lastOp' = "register_element_fields"
  /\ ret' = << >>
  /\ UNCHANGED << yaml, hasOverset_, matrixFree, NALU_HAS_MATRIXFREE,
                  decoupledOversetGlobalFlag_, numOversetItersDefault_,
                  preLoad, equationSystemVector_, eqSys, preIterAlgDriver_,
                  postIterAlgDriver_, converged, overallConvergence,
                  timestepOps, solverSpecMap_, managers, registerHistory >>

register_element_fields ==
  RegisterElementFields(TargetVectors)

\* The body of register_nodal_fields (866-875) and, without the realm, of
\* register_edge_fields (883-891): the names are resolved, then the realm
\* and every system are handed the part vector.
part_vec_fields(hook, withRealm, targetNames) ==
  LET v == create_part_vec(targetNames, FALSE, 1, << >>)
      realm == IF withRealm
               THEN << Call("realm", 0, hook, "part_vec", "none") >>
               ELSE << >>
  IN  IF v.status /= "ok"
      THEN [ log |-> << >>, status |-> v.status ]
      ELSE [ log |-> realm \o [ j \in 1..Len(equationSystemVector_) |->
                                  Call("sys", equationSystemVector_[j], hook,
                                       "part_vec", "none") ],
             status |-> "ok" ]

RegisterPartVecFields(hook, withRealm, targets) ==
  /\ status = "ok"
  /\ \E targetNames \in targets :
       LET r == part_vec_fields(hook, withRealm, targetNames)
       IN  /\ args' = [ targetNames |-> targetNames ]
           /\ log' = r.log
           /\ status' = r.status
  /\ lastOp' = hook
  /\ ret' = << >>
  /\ SetupFrame

\* EquationSystems::register_nodal_fields (863-875).
RegisterNodalFields(targets) ==
  RegisterPartVecFields("register_nodal_fields", TRUE, targets)

\* EquationSystems::register_edge_fields (880-891).
RegisterEdgeFields(targets) ==
  RegisterPartVecFields("register_edge_fields", FALSE, targets)

\* EquationSystems::register_nodal_fields (863-875) on any target names.
register_nodal_fields ==
  RegisterNodalFields(TargetVectors)

\* EquationSystems::register_edge_fields (880-891) on any target names.
register_edge_fields ==
  RegisterEdgeFields(TargetVectors)

\* The target names the realm registers fields on, and its calls of the
\* three field registrations while it sets the mesh database up; the realm
\* itself is outside the files modelled here.
RealmTargets ==
  { << "block_hex8" >> }

setup_nodal_fields ==
  DriverAllows("register") /\ RegisterNodalFields(RealmTargets)

setup_edge_fields ==
  DriverAllows("register") /\ RegisterEdgeFields(RealmTargets)

setup_element_fields ==
  DriverAllows("register") /\ RegisterElementFields(RealmTargets)

\* ------------------------------------------------------------------ norms
\* Norms are kept in hundredths: 0.05, 0.2 and 0.9 are 5, 20 and 90.
ScaledNorms == {5, 20, 90}

\* The initial value -1.0e16 of maxNorm (1433).  In hundredths it is beyond
\* the integers at hand; the value kept here lies, like the program's, below
\* every norm a system reports.
LowestNorm == -2000000000

\* Mutant of std_max: the smaller of the two.
std_min(a, b) ==
  IF a < b THEN a ELSE b

\* std::max(a, b).
std_max(a, b) ==
  IF a < b THEN b ELSE a

\* The loop of provide_system_norm (1433-1438).
RECURSIVE system_norm(_, _, _)
system_norm(norms, k, maxNorm) ==
  IF k > Len(equationSystemVector_) THEN maxNorm
  ELSE system_norm(norms, k + 1,
         std_max(maxNorm, norms[equationSystemVector_[k]]))

\* EquationSystems::provide_system_norm (1430-1439).  What each system
\* answers to provide_scaled_norm() is the systems' business.
provide_system_norm ==
  /\ status = "ok"
  /\ \E norms \in [ DOMAIN eqSys -> ScaledNorms ] :
       /\ args' = [ provide_scaled_norm |-> norms ]
       /\ ret' = Returned(system_norm(norms, 1, LowestNorm))
  /\ log' = for_each_system("provide_scaled_norm")
  /\ lastOp' = "provide_system_norm"
  /\ UNCHANGED status
  /\ SetupFrame

\* Norms and norm increments the systems report.
Norms == {1, 3}

NormIncrements == {0, 1, 2}

\* Mutant of divide: a zero divisor is turned into a zero result.
divide_guarded(a, b) ==
  IF b /= 0 THEN [ kind |-> "finite", num |-> a, den |-> b ]
  ELSE [ kind |-> "finite", num |-> 0, den |-> 1 ]

\* a / b on doubles: a quotient, or with a zero divisor what IEEE 754
\* gives (the inputs are not negative).
divide(a, b) ==
  IF b /= 0 THEN [ kind |-> "finite", num |-> a, den |-> b ]
  ELSE IF a = 0 THEN [ kind |-> "nan", num |-> a, den |-> b ]
  ELSE [ kind |-> "inf", num |-> a, den |-> b ]

\* The loop of provide_mean_system_norm (1446-1454): both sums, one system
\* at a time.
RECURSIVE mean_system_norm(_, _, _, _)
mean_system_norm(norms, increments, k, acc) ==
  IF k > Len(equationSystemVector_) THEN acc
  ELSE LET id == equationSystemVector_[k]
       IN  mean_system_norm(norms, increments, k + 1,
             [ meanNorm |-> acc.meanNorm + norms[id],
               normIncrement |-> acc.normIncrement + increments[id],
               log |-> acc.log \o << Ev("sys", id, "provide_norm"),
                                     Ev("sys", id, "provide_norm_increment") >> ])

\* EquationSystems::provide_mean_system_norm (1444-1456).
provide_mean_system_norm ==
  /\ status = "ok"
  /\ \E norms \in [ DOMAIN eqSys -> Norms ],
        increments \in [ DOMAIN eqSys -> NormIncrements ] :
       LET r == mean_system_norm(norms, increments, 1,
                  [ meanNorm |-> 0, normIncrement |-> 0, log |-> << >> ])
       IN  /\ args' = [ provide_norm |-> norms,
                        provide_norm_increment |-> increments ]
           /\ ret' = Returned(divide(r.meanNorm, r.normIncrement))
           /\ log' = r.log
  /\ lastOp' = "provide_mean_system_norm"
  /\ UNCHANGED status
  /\ SetupFrame

\* ------------------------------------------------------------- initialize
\* The first loop of initialize (1310-1321): every system, with the memory
\* diagnostic before it when that is active.
RECURSIVE initialize_pass(_, _)
initialize_pass(diag, k) ==
  IF k > Len(equationSystemVector_) THEN << >>
  ELSE memory_diagnostic(diag)
       \o << Ev("sys", equationSystemVector_[k], "initialize") >>
       \o initialize_pass(diag, k + 1)

\* Mutant of overset_report: the report stops at the first system without
\* a linear system.
RECURSIVE overset_report_break(_, _)
overset_report_break(linsys, k) ==
  IF k > Len(equationSystemVector_) THEN << >>
  ELSE LET id == equationSystemVector_[k]
       IN  IF ~linsys[id] THEN << >>
           ELSE << Ev("out", id, IF eqSys[id].decoupledOverset_
                                 THEN "decoupled" ELSE "coupled") >>
                \o overset_report_break(linsys, k + 1)

\* The report loop (1330-1337): a system whose linsys_ is null is passed
\* over, any other is reported as decoupled or coupled.
RECURSIVE overset_report(_, _)
overset_report(linsys, k) ==
  IF k > Len(equationSystemVector_) THEN << >>
  ELSE LET id == equationSystemVector_[k]
       IN  ( IF ~linsys[id] THEN << >>
             ELSE << Ev("out", id, IF eqSys[id].decoupledOverset_
                                   THEN "decoupled" ELSE "coupled") >> )
           \o overset_report(linsys, k + 1)

\* EquationSystems::initialize (1304-1339).  linsys tells which systems
\* hold a linear system (linsys_ /= nullptr) once initialized.
initialize ==
  /\ status = "ok"
  /\ \E diag \in BOOLEAN, linsys \in [ DOMAIN eqSys -> BOOLEAN ] :
       /\ args' = [ linsys_ |-> linsys ]
       /\ log' = initialize_pass(diag, 1)
                 \o ( IF hasOverset_
                      THEN << Ev("out", 0, "overset solution strategy") >>
                           \o overset_report(linsys, 1)
                      ELSE << >> )
  /\ ret' = << >>
  /\ lastOp' = "initialize"
  /\ UNCHANGED status
  /\ SetupFrame

\* Mutant of systems_decoupled: one decoupled system is enough.
RECURSIVE systems_decoupled_any(_)
systems_decoupled_any(k) ==
  IF k > Len(equationSystemVector_) THEN Len(equationSystemVector_) = 0
  ELSE eqSys[equationSystemVector_[k]].decoupledOverset_
       \/ systems_decoupled_any(k + 1)

\* The loop of all_systems_decoupled (1613-1615): is_decoupled() (334) of
\* every owned system from the k-th on.
RECURSIVE systems_decoupled(_)
systems_decoupled(k) ==
  IF k > Len(equationSystemVector_) THEN TRUE
  ELSE eqSys[equationSystemVector_[k]].decoupledOverset_
       /\ systems_decoupled(k + 1)

\* EquationSystems::all_systems_decoupled (1603-1618).  linsys tells which
\* systems hold a linear system; the function does not look at it.
all_systems_decoupled ==
  /\ status = "ok"
  /\ \E linsys \in [ DOMAIN eqSys -> BOOLEAN ] :
       args' = [ linsys_ |-> linsys ]
  /\ ret' = Returned(IF ~hasOverset_ THEN FALSE ELSE systems_decoupled(1))
  /\ log' = << >>
  /\ lastOp' = "all_systems_decoupled"
  /\ UNCHANGED status
  /\ SetupFrame

\* ------------------------------------------------ boundary-data hooks
\* Sizes a system's bcDataAlg_ (336) may have when the collection walks it;
\* the systems fill the vector in their own boundary-condition registration.
BcDataAlgSizes ==
  0..2

\* The inner loop of 1492-1494 and 1507-1509: one event per entry of the
\* system's bcDataAlg_.
per_bc_data_alg(n, e) ==
  [ k \in 1..n |-> e ]

\* The walk of 1490-1495 / 1505-1510 from position j on; event(id, k) is
\* what the inner loop body does for the system id.
RECURSIVE bc_data_walk(_, _, _)
bc_data_walk(j, sizes, hook) ==
  IF j > Len(equationSystemVector_) THEN << >>
  ELSE per_bc_data_alg(sizes[equationSystemVector_[j]],
                       Ev(hook[1], equationSystemVector_[j], hook[2]))
         \o bc_data_walk(j + 1, sizes, hook)

BcDataWalk(op, hook) ==
  /\ status = "ok"
  /\ \E sizes \in [ DOMAIN eqSys -> BcDataAlgSizes ] :
       /\ args' = [ bcDataAlg_ |-> sizes ]
       /\ log' = bc_data_walk(1, sizes, hook)
  /\ ret' = [ outcome |-> "ok", value |-> {} ]
  /\ lastOp' = op
  /\ UNCHANGED status
  /\ SetupFrame

\* EquationSystems::populate_boundary_data (1486-1496): every entry of
\* every system's bcDataAlg_ is executed.
populate_boundary_data ==
  BcDataWalk("populate_boundary_data", << "bcDataAlg", "execute" >>)

\* EquationSystems::post_external_data_transfer_work (1501-1511): the call
\* on the system sits inside the loop over its bcDataAlg_.
post_external_data_transfer_work ==
  BcDataWalk("post_external_data_transfer_work",
             << "sys", "post_external_data_transfer_work" >>)

\* ---------------------------------------------------------- FieldManager
\* The Field Registry: for a number of states, the descriptors of the names
\* it knows.  "velocity" is a multi-state nodal vector and "temperature" a
\* multi-state nodal scalar; "dual_nodal_volume" is a single-state nodal
\* scalar and "exposed_area_vector" a single-state generic side field.
Registry(numStates) ==
  [ velocity          |-> [ type |-> "VectorFieldType", rank |-> "NODE_RANK",
                            numStates |-> numStates, numComponents |-> 3 ],
    temperature       |-> [ type |-> "ScalarFieldType", rank |-> "NODE_RANK",
                            numStates |-> numStates, numComponents |-> 1 ],
    dual_nodal_volume |-> [ type |-> "ScalarFieldType", rank |-> "NODE_RANK",
                            numStates |-> 1, numComponents |-> 1 ],
    exposed_area_vector |-> [ type |-> "GenericFieldType",
                              rank |-> "SIDE_RANK",
                              numStates |-> 1, numComponents |-> 1 ] ]

\* Names a caller may ask for: two the Registry knows and one it does not.
FieldNames ==
  {"velocity", "dual_nodal_volume", "acrazyqoi"}

\* Part vectors a caller may pass: the universal part, or every part.
PartVectors ==
  { {"universal"}, {"universal", "block_1"} }

\* Field types a caller may ask for.
FieldTypes ==
  {"ScalarFieldType", "VectorFieldType"}

\* Field states a caller may ask for (stk_mesh/base/FieldState.hpp).
FieldStates ==
  {"StateNone", "StateNP1", "StateN", "StateNM1"}

\* The slot a field state names: StateNone and StateNP1 are the newest.
state_slot(state) ==
  CASE state \in {"StateNone", "StateNP1"} -> 0
    [] state = "StateN" -> 1
    [] state = "StateNM1" -> 2

\* A pointer to one state of a field of the mesh database.
Handle(name, rank, slot) ==
  [ name |-> name, rank |-> rank, slot |-> slot ]

\* What a caller holds after a dereference of nothing went unnoticed.
NullHandle ==
  Handle("null", "none", 0)

\* MetaData::get_field<FieldType>(rank, name): the field, or null.
get_field(meta, rank, name) ==
  IF name \in DOMAIN meta /\ meta[name].rank = rank THEN {name} ELSE {}

\* Field::field_of_state(state) on a field of the mesh database: the
\* field's state of that slot, or nothing for a slot the field lacks.
field_of_state(meta, name, state) ==
  IF state_slot(state) < meta[name].numStates
  THEN { Handle(name, meta[name].rank, state_slot(state)) }
  ELSE {}

\* Mutant of query: an unknown name is answered with a scalar descriptor.
query_lenient(numStates, name) ==
  IF name \in DOMAIN Registry(numStates)
  THEN Returned(Registry(numStates)[name])
  ELSE Returned(Registry(numStates)["temperature"])

\* FieldRegistry::query(numDimensions_, numStates_, name): the descriptor,
\* or a failure for a name the Registry does not have.
query(numStates, name) ==
  IF name \in DOMAIN Registry(numStates)
  THEN Returned(Registry(numStates)[name])
  ELSE Thrown("UnknownField")

\* Mutant of field_exists_in: any declared field makes the answer true.
field_exists_any(meta, numStates, name) ==
  IF query(numStates, name).outcome /= "ok"
  THEN Thrown("UnknownField")
  ELSE Returned(DOMAIN meta /= {})

\* The body of FieldManager::field_exists (490-491): the name is resolved
\* through the Registry, then looked up on the mesh database.
field_exists_in(meta, numStates, name) ==
  IF query(numStates, name).outcome /= "ok"
  THEN Thrown("UnknownField")
  ELSE Returned(name \in DOMAIN meta)

\* Mutant of register_field_in: a name already on the mesh database is
\* declared once more, as a second field.
register_field_duplicate(meta, key, name, parts, numStates, numComponents) ==
  LET q == query(key, name)
      def == CHOOSE d \in q.value : TRUE
      states == IF numStates = 0 THEN def.numStates ELSE numStates
      components == IF numComponents = 0 THEN def.numComponents
                    ELSE numComponents
      field == [ rank |-> def.rank, type |-> def.type, numStates |-> states,
                 numComponents |-> components, parts |-> parts ]
      as == IF name \in DOMAIN meta THEN "duplicate" ELSE name
  IN  IF q.outcome /= "ok"
      THEN [ ret |-> Thrown("UnknownField"), meta |-> meta ]
      ELSE [ ret |-> Returned(Handle(as, def.rank, 0)),
             meta |-> [ n \in DOMAIN meta \cup {as} |->
                          IF n = as THEN field ELSE meta[n] ] ]

\* Mutant of register_field_in: a call that would change the counts of a
\* field already there changes them.
register_field_overwrite(meta, key, name, parts, numStates, numComponents) ==
  LET q == query(key, name)
      def == CHOOSE d \in q.value : TRUE
      states == IF numStates = 0 THEN def.numStates ELSE numStates
      components == IF numComponents = 0 THEN def.numComponents
                    ELSE numComponents
      old == IF name \in DOMAIN meta THEN meta[name].parts ELSE {}
  IN  IF q.outcome /= "ok"
      THEN [ ret |-> Thrown("UnknownField"), meta |-> meta ]
      ELSE [ ret |-> Returned(Handle(name, def.rank, 0)),
             meta |-> [ n \in DOMAIN meta \cup {name} |->
                          IF n = name
                          THEN [ rank |-> def.rank, type |-> def.type,
                                 numStates |-> states,
                                 numComponents |-> components,
                                 parts |-> old \cup parts ]
                          ELSE meta[n] ] ]

\* Mutant of register_field_in: the counts given are ignored and the
\* descriptor's are used.
register_field_defaults(meta, key, name, parts, numStates, numComponents) ==
  LET q == query(key, name)
      def == CHOOSE d \in q.value : TRUE
  IN  IF q.outcome /= "ok"
      THEN [ ret |-> Thrown("UnknownField"), meta |-> meta ]
      ELSE IF name \notin DOMAIN meta
      THEN [ ret |-> Returned(Handle(name, def.rank, 0)),
             meta |-> [ n \in DOMAIN meta \cup {name} |->
                          IF n = name
                          THEN [ rank |-> def.rank, type |-> def.type,
                                 numStates |-> def.numStates,
                                 numComponents |-> def.numComponents,
                                 parts |-> parts ]
                          ELSE meta[n] ] ]
      ELSE [ ret |-> Returned(Handle(name, def.rank, 0)),
             meta |-> [ meta EXCEPT ![name].parts = @ \cup parts ] ]

\* Mutant of register_field_in: declaring a field drops the fields
\* declared before it.
register_field_replacing(meta, key, name, parts, numStates, numComponents) ==
  LET q == query(key, name)
      def == CHOOSE d \in q.value : TRUE
      states == IF numStates = 0 THEN def.numStates ELSE numStates
      components == IF numComponents = 0 THEN def.numComponents
                    ELSE numComponents
  IN  IF q.outcome /= "ok"
      THEN [ ret |-> Thrown("UnknownField"), meta |-> meta ]
      ELSE [ ret |-> Returned(Handle(name, def.rank, 0)),
             meta |-> [ n \in {name} |->
                          [ rank |-> def.rank, type |-> def.type,
                            numStates |-> states,
                            numComponents |-> components,
                            parts |-> parts ] ] ]

\* The body of register_field(name, parts, numStates, numComponents,
\* initVal) (542-547): the descriptor is resolved first; a field not yet on
\* the mesh database is declared with the descriptor's counts unless
\* numStates or numComponents is given (0: not given); a field already
\* there keeps its counts and gains the parts, and a call that would
\* change the counts fails.
register_field_in(meta, key, name, parts, numStates, numComponents) ==
  LET q == query(key, name)
      def == CHOOSE d \in q.value : TRUE
      states == IF numStates = 0 THEN def.numStates ELSE numStates
      components == IF numComponents = 0 THEN def.numComponents
                    ELSE numComponents
  IN  IF q.outcome /= "ok"
      THEN [ ret |-> Thrown("UnknownField"), meta |-> meta ]
      ELSE IF name \notin DOMAIN meta
      THEN [ ret |-> Returned(Handle(name, def.rank, 0)),
             meta |-> [ n \in DOMAIN meta \cup {name} |->
                          IF n = name
                          THEN [ rank |-> def.rank, type |-> def.type,
                                 numStates |-> states,
                                 numComponents |-> components,
                                 parts |-> parts ]
                          ELSE meta[n] ] ]
      ELSE IF meta[name].numStates /= states
              \/ meta[name].numComponents /= components
      THEN [ ret |-> Thrown("ConflictingRedefinition"), meta |-> meta ]
      ELSE [ ret |-> Returned(Handle(name, def.rank, 0)),
             meta |-> [ meta EXCEPT ![name].parts = @ \cup parts ] ]

\* Mutant of get_field_ptr_in: the pointer is handed out as a T* whatever
\* type the descriptor has.
get_field_ptr_coerced(meta, key, T, name, state, ub) ==
  LET q == query(key, name)
      def == CHOOSE d \in q.value : TRUE
      slot == IF get_field(meta, def.rank, name) = {} THEN {}
              ELSE field_of_state(meta, name, state)
  IN  IF q.outcome /= "ok" THEN Thrown("UnknownField")
      ELSE IF slot = {} /\ ub = "crash" THEN Thrown("crash")
      ELSE IF slot = {} THEN Returned(NullHandle)
      ELSE Returned(CHOOSE h \in slot : TRUE)

\* FieldManager::get_field_ptr<T> (514-529): the descriptor is resolved,
\* the field is looked up on the mesh database by the descriptor's rank and
\* the name, its state is taken and dereferenced, and std::get<T*> fails
\* when T is not the descriptor's type.  For a field that was never
\* declared the look-up gives null, and for a slot the field lacks the
\* state is null; the dereference of either is undefined (ub: a crash, or
\* it goes unnoticed).
get_field_ptr_in(meta, key, T, name, state, ub) ==
  LET q == query(key, name)
      def == CHOOSE d \in q.value : TRUE
      slot == IF get_field(meta, def.rank, name) = {} THEN {}
              ELSE field_of_state(meta, name, state)
  IN  IF q.outcome /= "ok" THEN Thrown("UnknownField")
      ELSE IF slot = {} /\ ub = "crash" THEN Thrown("crash")
      ELSE IF T /= def.type THEN Thrown("TypeMismatch")
      ELSE IF slot = {} THEN Returned(NullHandle)
      ELSE Returned(CHOOSE h \in slot : TRUE)

\* FieldManager::get_ngp_field_ptr (561-577): the same look-up and
\* dereference for StateNone, then the device field of what was found.
get_ngp_field_ptr_in(meta, key, name, ub) ==
  LET q == query(key, name)
      def == CHOOSE d \in q.value : TRUE
      slot == IF get_field(meta, def.rank, name) = {} THEN {}
              ELSE field_of_state(meta, name, "StateNone")
  IN  IF q.outcome /= "ok" THEN Thrown("UnknownField")
      ELSE IF slot = {} /\ ub = "crash" THEN Thrown("crash")
      ELSE IF slot = {} THEN Returned(NullHandle)
      ELSE Returned(CHOOSE h \in slot : TRUE)

\* What a FieldManager call leaves alone: all of the collaborator.
FieldFrame ==
  UNCHANGED << yaml, hasOverset_, matrixFree, NALU_HAS_MATRIXFREE,
               decoupledOversetGlobalFlag_, numOversetItersDefault_, preLoad,
               equationSystemVector_, eqSys, preIterAlgDriver_,
               postIterAlgDriver_, converged, overallConvergence, status,
               log, timestepOps, solverSpecMap_, managers >>

\* FieldManager::field_exists (490-491), for callers asking for names.
FieldExists(names) ==
  /\ \E m \in DOMAIN managers, name \in names :
       /\ args' = [ manager |-> m, name |-> name ]
       /\ ret' = field_exists_in(meta_, managers[m], name)
  /\ lastOp' = "field_exists"
  /\ metaBefore' = meta_
  /\ UNCHANGED << meta_, registerHistory >>
  /\ FieldFrame

field_exists ==
  FieldExists(FieldNames)

\* What a register_field call leaves in the history.
Registered(m, name, outcome) ==
  registerHistory \cup { [ key |-> managers[m], name |-> name,
                           succeeded |-> outcome = "ok" ] }

\* FieldManager::register_field(name, parts, numStates, numComponents,
\* initVal) (542-547), called with the number of states given or not.
RegisterFieldParts(names, partVectors) ==
  /\ \E m \in DOMAIN managers, name \in names, parts \in partVectors :
     \E numStates \in {0, managers[m]} :
       LET r == register_field_in(meta_, managers[m], name, parts,
                                  numStates, 0)
       IN  /\ args' = [ manager |-> m, name |-> name,
                        numStates |-> numStates, overload |-> "parts" ]
           /\ ret' = r.ret
           /\ meta_' = r.meta
           /\ registerHistory' = Registered(m, name, r.ret.outcome)
  /\ lastOp' = "register_field"
  /\ metaBefore' = meta_
  /\ FieldFrame

register_field_parts ==
  RegisterFieldParts(FieldNames, PartVectors)

\* FieldManager::register_field<T> (477-488) with the default state: the
\* registration with no count given, then get_field_ptr<T> on what it left.
RegisterField(names, partVectors) ==
  /\ \E m \in DOMAIN managers, name \in names, parts \in partVectors,
        T \in FieldTypes :
       LET r == register_field_in(meta_, managers[m], name, parts, 0, 0)
           g == get_field_ptr_in(r.meta, managers[m], T, name, "StateNone",
                                 "crash")
           out == IF r.ret.outcome /= "ok" THEN r.ret ELSE g
       IN  /\ args' = [ manager |-> m, name |-> name, numStates |-> 0,
                        overload |-> "template" ]
           /\ ret' = out
           /\ meta_' = r.meta
           /\ registerHistory' = Registered(m, name, out.outcome)
  /\ lastOp' = "register_field"
  /\ metaBefore' = meta_
  /\ FieldFrame

register_field ==
  RegisterField(FieldNames, PartVectors)

\* Names of the Registry a caller works with, and the part it puts them on.
KnownNames ==
  {"velocity", "dual_nodal_volume"}

Universal ==
  { {"universal"} }

\* The calls of a client that registers on the universal part only.
register_field_universal ==
  RegisterFieldParts(KnownNames, Universal)

register_field_T ==
  RegisterField(KnownNames, Universal)

\* FieldManager::register_field(name, part, numStates, numComponents,
\* initVal) (549-559): the registration on the one part, after which the
\* function ends without a return statement; what the caller gets is
\* undefined (ub: a crash, or a value that points at nothing).
register_field_part ==
  /\ \E m \in DOMAIN managers, name \in KnownNames,
        ub \in NullDerefOutcomes :
       LET r == register_field_in(meta_, managers[m], name, {"universal"},
                                  0, 0)
           out == IF r.ret.outcome /= "ok" THEN r.ret
                  ELSE IF ub = "crash" THEN Thrown("crash")
                  ELSE Returned(NullHandle)
       IN  /\ args' = [ manager |-> m, name |-> name, numStates |-> 0,
                        overload |-> "part" ]
           /\ ret' = out
           /\ meta_' = r.meta
           /\ registerHistory' = Registered(m, name, out.outcome)
  /\ lastOp' = "register_field"
  /\ metaBefore' = meta_
  /\ FieldFrame

\* Component counts a caller gives for the generic side field.
GenericComponents ==
  {1, 3}

\* FieldManager::register_generic_field (498-508) with one state and the
\* default state asked for: the registration with the counts given, then
\* get_field_ptr<GenericFieldType>.
register_generic_field ==
  /\ \E m \in DOMAIN managers, numComponents \in GenericComponents :
       LET name == "exposed_area_vector"
           r == register_field_in(meta_, managers[m], name, {"universal"},
                                  1, numComponents)
           g == get_field_ptr_in(r.meta, managers[m], "GenericFieldType",
                                 name, "StateNone", "crash")
           out == IF r.ret.outcome /= "ok" THEN r.ret ELSE g
       IN  /\ args' = [ manager |-> m, name |-> name, numStates |-> 1,
                        overload |-> "generic" ]
           /\ ret' = out
           /\ meta_' = r.meta
           /\ registerHistory' = Registered(m, name, out.outcome)
  /\ lastOp' = "register_generic_field"
  /\ metaBefore' = meta_
  /\ FieldFrame

\* FieldManager::get_field_ptr<T> (514-529), for callers asking for names
\* in the given states.
GetFieldPtr(names, states) ==
  /\ \E m \in DOMAIN managers, name \in names, T \in FieldTypes,
        state \in states, ub \in NullDerefOutcomes :
       /\ args' = [ manager |-> m, name |-> name, T |-> T,
                    state |-> state ]
       /\ ret' = get_field_ptr_in(meta_, managers[m], T, name, state, ub)
  /\ lastOp' = "get_field_ptr"
  /\ metaBefore' = meta_
  /\ UNCHANGED << meta_, registerHistory >>
  /\ FieldFrame

get_field_ptr ==
  GetFieldPtr(KnownNames, FieldStates)

\* get_field_ptr<T>(name): the state left to its default.
get_field_ptr_default ==
  GetFieldPtr(KnownNames, {"StateNone"})

\* FieldManager::get_ngp_field_ptr (561-577).
get_ngp_field_ptr ==
  /\ \E m \in DOMAIN managers, name \in KnownNames,
        ub \in NullDerefOutcomes :
       /\ args' = [ manager |-> m, name |-> name ]
       /\ ret' = get_ngp_field_ptr_in(meta_, managers[m], name, ub)
  /\ lastOp' = "get_ngp_field_ptr"
  /\ metaBefore' = meta_
  /\ UNCHANGED << meta_, registerHistory >>
  /\ FieldFrame

\* FieldManager::size (493): the number of fields the mesh database
\* lists, one for each state of each declared field.
RECURSIVE get_fields_size(_, _)
get_fields_size(meta, names) ==
  IF names = {} THEN 0
  ELSE LET n == CHOOSE x \in names : TRUE
       IN  meta[n].numStates + get_fields_size(meta, names \ {n})

size(meta) ==
  get_fields_size(meta, DOMAIN meta)

\* --------------------------------------------------------- specifications
\* The state after EquationSystems::EquationSystems (641-645), for an input
\* document and a realm drawn from the given sets.
InitWith(systemsSet, blocks, flags, iters, matFree, build, solverMaps) ==
  /\ yaml \in [ decoupled_overset_solve : { b.decoupled_overset_solve : b \in blocks },
                num_overset_correctors  : { b.num_overset_correctors : b \in blocks },
                solver_system_specification : solverMaps,
                systems : systemsSet ]
  /\ \E b \in blocks :
       /\ yaml.decoupled_overset_solve = b.decoupled_overset_solve
       /\ yaml.num_overset_correctors = b.num_overset_correctors
  /\ hasOverset_ \in BOOLEAN
  /\ matrixFree \in matFree
  /\ NALU_HAS_MATRIXFREE \in build
  /\ decoupledOversetGlobalFlag_ \in flags
  /\ numOversetItersDefault_ \in iters
  /\ preLoad = [ flag  |-> decoupledOversetGlobalFlag_,
                 iters |-> numOversetItersDefault_ ]
  /\ equationSystemVector_ = << >>
  /\ eqSys = << >>
  /\ preIterAlgDriver_ = << >>
  /\ postIterAlgDriver_ = << >>
  /\ converged = << >>
  /\ overallConvergence = TRUE
  /\ status = "none"
  /\ lastOp = "none"
  /\ log = << >>
  /\ timestepOps = << >>
  /\ solverSpecMap_ = << >>
  /\ args = << >>
  /\ ret = << >>
  /\ meta_ = << >>
  /\ metaBefore = << >>
  /\ registerHistory = {}

InitLoad ==
  InitWith(SeqsUpTo(Declarations(LoadKinds, OversetBlocks), MaxSystems),
           OversetBlocks, BOOLEAN, InitIters, BOOLEAN, BOOLEAN,
           {OneSolver})
  /\ managers = << >>

NextLoad ==
  load

SpecLoad ==
  InitLoad /\ [][NextLoad]_vars

\* The timestep specification: plain inputs, then the whole life cycle.
Init ==
  InitWith(SeqsUpTo(Declarations(StepKinds, {NoBlock}), MaxSystems),
           {NoBlock}, {FALSE}, {1}, {FALSE}, {FALSE}, {OneSolver})
  /\ managers = << >>

Next ==
  \/ load
  \/ register_pre_iter_alg
  \/ register_post_iter_alg
  \/ pre_timestep_work
  \/ predict_state
  \/ solve_and_update
  \/ post_converged_work
  \/ provide_output
  \/ dump_eq_time

Spec ==
  Init /\ [][Next]_vars

\* The set-up specification: a loaded collaborator taking the registration
\* calls and naming solver blocks.
InitSetup ==
  InitWith(SeqsUpTo(Declarations(StepKinds, {NoBlock}), MaxSystems),
           {NoBlock}, {FALSE}, {1}, {FALSE}, {FALSE}, SolverMaps)
  /\ managers = << >>

NextSetup ==
  \/ load
  \/ get_solver_block_name
  \/ register_wall_bc
  \/ register_inflow_bc
  \/ register_open_bc
  \/ register_symmetry_bc
  \/ register_abltop_bc
  \/ register_periodic_bc
  \/ register_non_conformal_bc
  \/ register_interior_algorithm
  \/ register_nodal_fields
  \/ register_edge_fields
  \/ register_element_fields

SpecSetup ==
  InitSetup /\ [][NextSetup]_vars

\* The query specification: a loaded collaborator that is initialized and
\* asked for its norms.  Some systems are decoupled by their own block.
QueryBlocks ==
  { NoBlock, CHOOSE b \in OversetBlocks : b.decoupled_overset_solve = {TRUE} }

InitQuery ==
  InitWith(SeqsUpTo(Declarations(StepKinds, QueryBlocks), MaxSystems),
           {NoBlock}, {FALSE}, {1}, {FALSE}, {FALSE}, {OneSolver})
  /\ managers = << >>

NextQuery ==
  \/ load
  \/ initialize
  \/ provide_system_norm
  \/ provide_mean_system_norm
  \/ all_systems_decoupled
  \/ populate_boundary_data
  \/ post_external_data_transfer_work

SpecQuery ==
  InitQuery /\ [][NextQuery]_vars

\* The field specification: two FieldManagers over one mesh database,
\* constructed with the same number of states (FieldManager::FieldManager,
\* 461), and nothing declared yet.
InitFields ==
  /\ InitWith({ << >> }, {NoBlock}, {FALSE}, {1}, {FALSE}, {FALSE},
              {OneSolver})
  /\ \E numStates \in {2, 3} : managers = << numStates, numStates >>

NextFields ==
  \/ field_exists
  \/ register_field_parts
  \/ register_field

SpecFields ==
  InitFields /\ [][NextFields]_vars

\* The keys specification: two FieldManagers over one mesh database,
\* constructed with different numbers of states.
InitKeys ==
  /\ InitWith({ << >> }, {NoBlock}, {FALSE}, {1}, {FALSE}, {FALSE},
              {OneSolver})
  /\ managers = << 2, 3 >>

NextKeys ==
  \/ field_exists
  \/ register_field_universal
  \/ get_field_ptr_default

SpecKeys ==
  InitKeys /\ [][NextKeys]_vars

\* The registration specification: one FieldManager registering names on
\* part sets, with and without a number of states.
InitManager ==
  /\ InitWith({ << >> }, {NoBlock}, {FALSE}, {1}, {FALSE}, {FALSE},
              {OneSolver})
  /\ \E numStates \in {2, 3} : managers = << numStates >>

NextRegister ==
  \/ register_field_parts
  \/ register_field
  \/ register_generic_field

SpecRegister ==
  InitManager /\ [][NextRegister]_vars

\* The pointer specification: one FieldManager whose client registers on
\* the universal part and asks for pointers.
NextPointers ==
  \/ register_field_universal
  \/ register_field_T
  \/ register_field_part
  \/ get_field_ptr
  \/ get_ngp_field_ptr

SpecPointers ==
  InitManager /\ [][NextPointers]_vars

\* The manager specification: one FieldManager and every kind of call.
NextManager ==
  \/ field_exists
  \/ register_field_universal
  \/ register_field_part
  \/ register_generic_field
  \/ get_field_ptr_default
  \/ get_ngp_field_ptr

SpecManager ==
  InitManager /\ [][NextManager]_vars

\* The schedule specification: the realm sets the fields up, then steps.
NextSchedule ==
  \/ load
  \/ setup_nodal_fields
  \/ setup_edge_fields
  \/ setup_element_fields
  \/ pre_timestep_work
  \/ predict_state
  \/ solve_and_update
  \/ post_converged_work
  \/ provide_output
  \/ dump_eq_time

SpecSchedule ==
  Init /\ [][NextSchedule]_vars

\* ============================================================== properties
\* Positions of log holding a call that satisfies Test.
Where(Test(_)) ==
  { i \in DOMAIN log : Test(log[i]) }

Min(S) ==
  CHOOSE x \in S : \A y \in S : x <= y

Max(S) ==
  CHOOSE x \in S : \A y \in S : x >= y

\* Every position of A lies before every position of B.
Before(A, B) ==
  \A a \in A, b \in B : a < b

NumSystems ==
  Len(equationSystemVector_)

\* The calls one hook would make when forwarded to every owned system in
\* registration order.
InOrder(hook) ==
  [ j \in 1..NumSystems |-> << "sys", equationSystemVector_[j], hook >> ]

IsIterCall(e) ==
  e[1] = "sys" /\ e[3] \in { "pre_iter_work", "solve_and_update", "post_iter_work" }

IsDepCall(e) ==
  e[1] = "sys" /\ e[3] = "post_iter_work_dep"

IsConvCall(e) ==
  e[1] = "sys" /\ e[3] = "system_is_converged"

\* C1: in a solve_and_update call every owned system gets pre_iter_work,
\* solve_and_update, post_iter_work, each exactly once, consecutively, in
\* registration order, system i finished before system i+1 starts.
C1_SystemPass ==
  lastOp = "solve_and_update" =>
    LET P == Where(IsIterCall)
    IN  /\ Cardinality(P) = 3 * NumSystems
        /\ NumSystems > 0 =>
             LET p == Min(P)
             IN  /\ p + 3 * NumSystems - 1 <= Len(log)
                 /\ \A j \in 1..NumSystems :
                      LET q  == p + 3 * (j - 1)
                          id == equationSystemVector_[j]
                      IN  /\ log[q]     = << "sys", id, "pre_iter_work" >>
                          /\ log[q + 1] = << "sys", id, "solve_and_update" >>
                          /\ log[q + 2] = << "sys", id, "post_iter_work" >>

C1_Witness ==
  /\ lastOp = "solve_and_update"
  /\ NumSystems >= 2
  /\ Cardinality(Where(IsIterCall)) = 3 * NumSystems

\* C2: solve_and_update returns true iff every owned system answers true to
\* system_is_converged(), and it asks every system exactly once, in
\* registration order, also after one has answered false.
C2_Convergence ==
  lastOp = "solve_and_update" =>
    /\ overallConvergence =
         (\A j \in 1..NumSystems : converged[equationSystemVector_[j]])
    /\ SelectSeq(log, IsConvCall) = InOrder("system_is_converged")

C2_Witness ==
  /\ lastOp = "solve_and_update"
  /\ NumSystems >= 2
  /\ ~converged[equationSystemVector_[1]]
  /\ converged[equationSystemVector_[2]]
  /\ ~overallConvergence
  /\ Cardinality(Where(IsConvCall)) = NumSystems

\* C3: in a solve_and_update call post_iter_work_dep is called exactly once
\* on every owned system, in registration order, after the last call of the
\* pre_iter_work/solve_and_update/post_iter_work pass.
C3_DepPass ==
  lastOp = "solve_and_update" =>
    /\ SelectSeq(log, IsDepCall) = InOrder("post_iter_work_dep")
    /\ Before(Where(IsIterCall), Where(IsDepCall))

C3_Witness ==
  /\ lastOp = "solve_and_update"
  /\ NumSystems >= 2
  /\ Cardinality(Where(IsDepCall)) = NumSystems
  /\ Cardinality(Where(IsIterCall)) = 3 * NumSystems

IsEqsPre(e) ==
  e = << "eqs", 0, "pre_iter_work" >>

IsEqsPost(e) ==
  e = << "eqs", 0, "post_iter_work" >>

IsPostAlg(e) ==
  e[1] = "alg" /\ \E j \in DOMAIN postIterAlgDriver_ : e[2] = postIterAlgDriver_[j]

IsPreAlg(e) ==
  \/ e[1] = "overset"
  \/ e[1] = "alg" /\ \E j \in DOMAIN preIterAlgDriver_ : e[2] = preIterAlgDriver_[j]

\* C4: in a solve_and_update call the collection's pre_iter_work runs once,
\* before any call on an owned system, and the collection's post_iter_work
\* runs once, after the last post_iter_work_dep and before the first
\* system_is_converged.
C4_GlobalHooks ==
  lastOp = "solve_and_update" =>
    /\ Cardinality(Where(IsEqsPre)) = 1
    /\ Cardinality(Where(IsEqsPost)) = 1
    /\ Before(Where(IsEqsPre) \cup Where(IsPreAlg), Where(IsSys))
    /\ Before(Where(IsDepCall) \cup Where(IsIterCall),
              Where(IsEqsPost) \cup Where(IsPostAlg))
    /\ Before(Where(IsEqsPost) \cup Where(IsPostAlg), Where(IsConvCall))

C4_Witness ==
  /\ lastOp = "solve_and_update"
  /\ NumSystems >= 2
  /\ Len(preIterAlgDriver_) >= 1
  /\ Len(postIterAlgDriver_) >= 1
  /\ Where(IsEqsPost) /= {}
  /\ Where(IsDepCall) /= {}
  /\ Where(IsConvCall) /= {}

\* C5: pre_iter_work executes the overset updater once, before every global
\* pre-iteration algorithm, when the realm has overset meshes and never
\* otherwise, then every pre-iteration algorithm once in registration
\* order; post_iter_work executes every post-iteration algorithm once in
\* registration order.
C5_IterWork ==
  lastOp = "solve_and_update" =>
    LET ov   == IF hasOverset_ THEN << << "overset", 0, "execute" >> >> ELSE << >>
        pre  == [ j \in DOMAIN preIterAlgDriver_ |->
                    << "alg", preIterAlgDriver_[j], "execute" >> ]
        post == [ j \in DOMAIN postIterAlgDriver_ |->
                    << "alg", postIterAlgDriver_[j], "execute" >> ]
        a    == Min(Where(IsEqsPre))
        b    == Min(Where(IsEqsPost))
    IN  /\ SelectSeq(log, LAMBDA e : e[1] \in { "overset", "alg" })
             = ov \o pre \o post
        /\ SubSeq(log, a + 1, a + Len(ov) + Len(pre)) = ov \o pre
        /\ SubSeq(log, b + 1, b + Len(post)) = post

C5_Witness ==
  /\ lastOp = "solve_and_update"
  /\ hasOverset_
  /\ Len(preIterAlgDriver_) >= 2
  /\ Len(postIterAlgDriver_) >= 1
  /\ Cardinality(Where(LAMBDA e : e[1] = "overset")) = 1

C5_WitnessNoOverset ==
  /\ lastOp = "solve_and_update"
  /\ ~hasOverset_
  /\ Len(preIterAlgDriver_) >= 1
  /\ Where(LAMBDA e : e[1] = "overset") = {}

\* The place of an operation in the order of one timestep.
Rank(op) ==
  CASE op = "pre_timestep_work" -> 1
    [] op = "predict_state" -> 2
    [] op = "solve_and_update" -> 3
    [] op = "post_converged_work" -> 4
    [] op = "provide_output" -> 5
    [] op = "dump_eq_time" -> 6
    [] OTHER -> 0

ForwardingOps ==
  { "pre_timestep_work", "predict_state", "post_converged_work",
    "provide_output", "dump_eq_time" }

\* C7: pre_timestep_work, predict_state, post_converged_work, provide_output
\* and dump_eq_time each call the hook of the same name exactly once on
\* every owned system, in registration order, and call nothing else.
C7_Forwarding ==
  lastOp \in ForwardingOps => log = InOrder(lastOp)

C7_Witness ==
  /\ lastOp = "dump_eq_time"
  /\ NumSystems >= 2
  /\ Len(log) = NumSystems
  /\ \A op \in ForwardingOps : \E i \in DOMAIN timestepOps : timestepOps[i] = op

\* A declaration whose branch of load leaves a constructed system in eqSys.
Constructs(kind) ==
  \/ kind \in { "VolumeOfFluid", "ShearStressTransport", "ChienKEpsilon",
                "WilcoxKOmega", "TurbKineticEnergy", "Enthalpy", "WallDistance" }
  \/ kind = "LowMachEOM" /\ (~matrixFree \/ NALU_HAS_MATRIXFREE)
  \/ kind = "HeatConduction" /\ matrixFree /\ NALU_HAS_MATRIXFREE

\* C8: load takes the declarations in order; when declaration k names no
\* recognised kind load fails, with UnknownEquationSystemKind when it gets
\* as far as declaration k, and nothing is constructed, seeded or loaded for
\* declaration k or a later one.
C8_UnknownKind ==
  lastOp = "load" =>
    \A k \in DOMAIN yaml.systems :
      yaml.systems[k].kind \notin RecognizedKinds =>
        /\ status /= "ok"
        /\ (\A i \in 1..(k - 1) : Constructs(yaml.systems[i].kind))
             => status = "UnknownEquationSystemKind"
        /\ \A i \in DOMAIN log : log[i][1] \in { "sys", "null" } => log[i][2] < k
        /\ \A id \in DOMAIN eqSys : id < k
        /\ \A j \in DOMAIN equationSystemVector_ : equationSystemVector_[j] < k

C8_Witness ==
  /\ lastOp = "load"
  /\ Len(yaml.systems) = 2
  /\ yaml.systems[1].kind = "Bogus"
  /\ yaml.systems[2].kind = "Enthalpy"
  /\ status = "UnknownEquationSystemKind"
  /\ equationSystemVector_ = << >>

C8_WitnessSecond ==
  /\ lastOp = "load"
  /\ Len(yaml.systems) = 2
  /\ yaml.systems[1].kind = "Enthalpy"
  /\ yaml.systems[2].kind = "Bogus"
  /\ status = "UnknownEquationSystemKind"
  /\ equationSystemVector_ = << 1 >>

\* C9: every system load constructs is seeded with the collection-level
\* flag and corrector count after its construction and before its own
\* load; so an entry of its own block is its final value, and without one
\* its final value is the collection-level default.
C9_SeedThenLoad ==
  lastOp = "load" =>
    \A id \in DOMAIN eqSys :
      LET block == yaml.systems[id].block
          s     == eqSys[id]
      IN  /\ SelectSeq(log, LAMBDA e : e[1] = "sys" /\ e[2] = id)
               = << << "sys", id, "construct" >>, << "sys", id, "seed" >>,
                    << "sys", id, "load" >> >>
          /\ s.seeded = { << decoupledOversetGlobalFlag_, numOversetItersDefault_ >> }
          /\ s.decoupledOverset_ =
               IF block.decoupled_overset_solve /= {}
                 THEN (CHOOSE v \in block.decoupled_overset_solve : TRUE)
                 ELSE decoupledOversetGlobalFlag_
          /\ s.numOversetIters_ =
               IF block.num_overset_correctors /= {}
                 THEN (CHOOSE v \in block.num_overset_correctors : TRUE)
                 ELSE numOversetItersDefault_

C9_Witness ==
  /\ lastOp = "load"
  /\ \E id \in DOMAIN eqSys :
       /\ yaml.systems[id].block.decoupled_overset_solve = { TRUE }
       /\ ~decoupledOversetGlobalFlag_
       /\ eqSys[id].decoupledOverset_
       /\ yaml.systems[id].block.num_overset_correctors = {}
       /\ numOversetItersDefault_ = 3
       /\ eqSys[id].numOversetIters_ = 3

IsYamlRead(e) ==
  e[1] = "yaml"

\* C10: without overset meshes load leaves the collection-level flag and
\* corrector count at their values from before load, whatever the input
\* holds, and seeds those into every system; with overset meshes it reads
\* each of the two entries exactly once, before the first construction.
C10_GlobalDefaults ==
  lastOp = "load" =>
    /\ ~hasOverset_ =>
         /\ decoupledOversetGlobalFlag_ = preLoad.flag
         /\ numOversetItersDefault_ = preLoad.iters
         /\ Where(IsYamlRead) = {}
         /\ \A id \in DOMAIN eqSys :
              eqSys[id].seeded = { << preLoad.flag, preLoad.iters >> }
    /\ hasOverset_ =>
         /\ SelectSeq(log, IsYamlRead)
              = << << "yaml", 0, "decoupled_overset_solve" >>,
                   << "yaml", 0, "num_overset_correctors" >> >>
         /\ Before(Where(IsYamlRead), Where(LAMBDA e : e[1] \in { "sys", "null" }))
         /\ decoupledOversetGlobalFlag_ =
              IF yaml.decoupled_overset_solve /= {}
                THEN (CHOOSE v \in yaml.decoupled_overset_solve : TRUE)
                ELSE preLoad.flag
         /\ numOversetItersDefault_ =
              IF yaml.num_overset_correctors /= {}
                THEN (CHOOSE v \in yaml.num_overset_correctors : TRUE)
                ELSE preLoad.iters

C10_Witness ==
  /\ lastOp = "load"
  /\ ~hasOverset_
  /\ yaml.decoupled_overset_solve = { FALSE }
  /\ yaml.num_overset_correctors = { 3 }
  /\ preLoad.flag
  /\ decoupledOversetGlobalFlag_
  /\ numOversetItersDefault_ = preLoad.iters
  /\ equationSystemVector_ /= << >>

C10_WitnessOverset ==
  /\ lastOp = "load"
  /\ hasOverset_
  /\ yaml.decoupled_overset_solve = { FALSE }
  /\ preLoad.flag
  /\ ~decoupledOversetGlobalFlag_
  /\ numOversetItersDefault_ = 3
  /\ equationSystemVector_ /= << >>


\* ---------------------------------------------------------------- C11
\* The original C11, as the specification words it: with the key present the
\* configured name comes back, with the key absent the call fails with
\* MissingSolverMapping, the map stays what load read, and "n_a" is never
\* the value returned.
C11_Original ==
  lastOp = "get_solver_block_name" =>
    /\ solverSpecMap_ = yaml.solver_system_specification
    /\ ret.value /= {"n_a"}
    /\ IF args.eqName \in DOMAIN yaml.solver_system_specification
       THEN /\ ret = Returned(yaml.solver_system_specification[args.eqName])
            /\ status = "ok"
       ELSE /\ ret = Thrown("MissingSolverMapping")
            /\ status = "MissingSolverMapping"

\* C11, amended: get_solver_block_name returns the configured name when
\* solverSpecMap_ has the key and fails with MissingSolverMapping when it has
\* not; it never modifies the map, and it returns "n_a" only when "n_a" is
\* the name the document configured for that key, never in place of a
\* missing mapping.
C11_SolverBlockName ==
  lastOp = "get_solver_block_name" =>
    /\ solverSpecMap_ = yaml.solver_system_specification
    /\ IF args.eqName \in DOMAIN yaml.solver_system_specification
       THEN /\ ret = Returned(yaml.solver_system_specification[args.eqName])
            /\ status = "ok"
       ELSE /\ ret = Thrown("MissingSolverMapping")
            /\ status = "MissingSolverMapping"
    /\ ret.value = {"n_a"} =>
         /\ args.eqName \in DOMAIN yaml.solver_system_specification
         /\ yaml.solver_system_specification[args.eqName] = "n_a"

\* A lookup that missed, in a map that has other keys.
C11_Witness ==
  /\ lastOp = "get_solver_block_name"
  /\ DOMAIN solverSpecMap_ /= {}
  /\ args.eqName \notin DOMAIN solverSpecMap_
  /\ ret.outcome = "MissingSolverMapping"

\* A lookup that found a configured name.
C11_WitnessFound ==
  /\ lastOp = "get_solver_block_name"
  /\ ret = Returned("solve_cont")

\* -------------------------------------------------- registration helpers
\* The members of the register_*_bc family that take one part name.
SingleNameBcs ==
  { "register_wall_bc", "register_inflow_bc", "register_open_bc",
    "register_symmetry_bc", "register_abltop_bc" }

Resolved(name) ==
  name \in DOMAIN MeshParts

HasRank(name, rank) ==
  MeshParts[name].rank = rank

\* Some topological subset of the part is not of side rank.
HasWrongRankSubset(name) ==
  \E i \in DOMAIN MeshParts[name].subsets :
    ~HasRank(MeshParts[name].subsets[i], side_rank)

\* The calls of the log that forward the registration.
Forwarded ==
  SelectSeq(log, LAMBDA e : e[1] \in {"realm", "sys"} /\ e[3] = lastOp)

\* The first name of a vector that is not a resolved element-rank part
\* (0 when there is none).
FirstRejected(names) ==
  LET bad == { k \in DOMAIN names :
                 ~Resolved(names[k]) \/ ~HasRank(names[k], "ELEMENT_RANK") }
  IN  IF bad = {} THEN 0 ELSE Min(bad)

\* ---------------------------------------------------------------- C12
\* C12: every member of the register_*_bc family (wall, inflow, open,
\* symmetry, ABL-top, periodic, non-conformal) fails fatally with UnknownPart
\* when a part name it is given does not exist in the mesh database; no
\* member returns normally after an unresolved part name.
C12_UnknownPart ==
  /\ lastOp \in SingleNameBcs /\ ~Resolved(args.targetName)
       => status = "UnknownPart"
  /\ lastOp = "register_periodic_bc"
       /\ ( ~Resolved(args.targetNameMaster)
            \/ ~Resolved(args.targetNameSlave) )
       => status = "UnknownPart"
  /\ lastOp = "register_non_conformal_bc"
       /\ ( ~Resolved(args.currentPartNameVec_[1])
            \/ ~Resolved(args.opposingPartNameVec_[1]) )
       => status = "UnknownPart"

\* ---------------------------------------------------------------- C13
\* C13: every boundary-condition registration (wall, inflow, open, symmetry,
\* ABL-top, non-conformal) fails fatally with WrongEntityRank when some
\* topological subset of the resolved part does not have side rank, and
\* register_interior_algorithm and register_element_fields fail fatally with
\* WrongEntityRank when a resolved part does not have element rank; no such
\* call returns normally after meeting a part of the wrong rank.
C13_WrongEntityRank ==
  /\ lastOp \in SingleNameBcs /\ Resolved(args.targetName)
       /\ HasWrongRankSubset(args.targetName)
       => status = "WrongEntityRank"
  /\ lastOp = "register_non_conformal_bc"
       /\ Resolved(args.currentPartNameVec_[1])
       /\ HasWrongRankSubset(args.currentPartNameVec_[1])
       => status = "WrongEntityRank"
  /\ lastOp \in {"register_interior_algorithm", "register_element_fields"}
       /\ FirstRejected(args.targetNames) /= 0
       /\ Resolved(args.targetNames[FirstRejected(args.targetNames)])
       => status = "WrongEntityRank"

\* ---------------------------------------------------------------- C14
\* The subsets a call accepted: those of side rank, up to the subset on
\* which the call threw when it threw.
RECURSIVE AcceptedFrom(_, _)
AcceptedFrom(subsets, i) ==
  IF i > Len(subsets) THEN << >>
  ELSE IF HasRank(subsets[i], side_rank)
  THEN << subsets[i] >> \o AcceptedFrom(subsets, i + 1)
  ELSE IF status = "WrongEntityRank" THEN << >>
  ELSE AcceptedFrom(subsets, i + 1)

Accepted ==
  LET name == IF lastOp = "register_non_conformal_bc"
              THEN args.currentPartNameVec_[1] ELSE args.targetName
  IN  IF Resolved(name) THEN AcceptedFrom(MeshParts[name].subsets, 1)
      ELSE << >>

\* C14: for every part subset accepted by a register_*_bc call (wall,
\* inflow, open, symmetry, ABL-top, non-conformal) the registration goes
\* first to the realm and then to every owned system exactly once in vector
\* order, with the same part and topology; subsets are handled in the
\* part's subset order, and one subset's forwarding is complete before the
\* next subset's begins.
C14_ForwardOrder ==
  lastOp \in SingleNameBcs \cup {"register_non_conformal_bc"} =>
    LET n == Len(equationSystemVector_)
    IN  /\ Len(Forwarded) = Len(Accepted) * (n + 1)
        /\ \A j \in DOMAIN Accepted :
             LET base == (j - 1) * (n + 1) + 1
                 part == Accepted[j]
             IN  /\ Forwarded[base]
                      = Call("realm", 0, lastOp, part, MeshParts[part].topo)
                 /\ \A k \in 1..n :
                      Forwarded[base + k]
                        = Call("sys", equationSystemVector_[k], lastOp, part,
                               MeshParts[part].topo)

\* A symmetry registration that forwarded two subsets to two systems.
C14_Witness ==
  /\ lastOp = "register_symmetry_bc"
  /\ status = "ok"
  /\ Len(Accepted) = 2
  /\ Len(equationSystemVector_) = 2
  /\ Len(Forwarded) = 6

\* A wall registration that passed over a subset of the wrong rank between
\* two accepted ones.
C14_WitnessSkipped ==
  /\ lastOp = "register_wall_bc"
  /\ args.targetName = "mixed"
  /\ Len(Accepted) = 2
  /\ Len(equationSystemVector_) >= 1

\* ---------------------------------------------------------------- C15
\* C15: register_periodic_bc, when both the master and the slave part exist,
\* forwards exactly once to the realm and never to an owned system, whether
\* or not the subset counts match; when either part is missing it fails
\* fatally and forwards nothing.
C15_Periodic ==
  lastOp = "register_periodic_bc" =>
    IF Resolved(args.targetNameMaster) /\ Resolved(args.targetNameSlave)
    THEN /\ status = "ok"
         /\ Forwarded = << Call("realm", 0, "register_periodic_bc",
                                args.targetNameMaster, args.targetNameSlave) >>
    ELSE /\ status = "UnknownPart"
         /\ Forwarded = << >>

\* Both parts exist, their subset counts differ, and there are systems that
\* could have been told.
C15_Witness ==
  /\ lastOp = "register_periodic_bc"
  /\ status = "ok"
  /\ Resolved(args.targetNameMaster) /\ Resolved(args.targetNameSlave)
  /\ Len(MeshParts[args.targetNameMaster].subsets)
       /= Len(MeshParts[args.targetNameSlave].subsets)
  /\ Len(equationSystemVector_) = 2
  /\ Len(log) = 3

\* The slave is missing.
C15_WitnessMissing ==
  /\ lastOp = "register_periodic_bc"
  /\ Resolved(args.targetNameMaster)
  /\ ~Resolved(args.targetNameSlave)
  /\ status = "UnknownPart"

\* ---------------------------------------------------------------- C16
\* C16: for a non-empty collection provide_system_norm returns the maximum
\* of provide_scaled_norm() over all owned systems, whatever the order the
\* systems are registered in, having asked each system exactly once.
C16_SystemNorm ==
  lastOp = "provide_system_norm" /\ NumSystems > 0 =>
    /\ ret = Returned(Max({ args.provide_scaled_norm[id] : id \in DOMAIN eqSys }))
    /\ log = InOrder("provide_scaled_norm")
    /\ status = "ok"

\* The specification's example in both orders that put the largest norm
\* off the last place: 0.9 out of {0.2, 0.9} with 0.9 asked first.
C16_Witness ==
  /\ lastOp = "provide_system_norm"
  /\ NumSystems = 2
  /\ args.provide_scaled_norm[equationSystemVector_[1]] = 90
  /\ args.provide_scaled_norm[equationSystemVector_[2]] = 20
  /\ ret = Returned(90)

\* ... and with 0.9 asked last.
C16_WitnessLast ==
  /\ lastOp = "provide_system_norm"
  /\ NumSystems = 2
  /\ args.provide_scaled_norm[equationSystemVector_[1]] = 5
  /\ args.provide_scaled_norm[equationSystemVector_[2]] = 90
  /\ ret = Returned(90)

\* ---------------------------------------------------------------- C17
RECURSIVE SumOver(_, _)
SumOver(f, S) ==
  IF S = {} THEN 0
  ELSE LET x == CHOOSE x \in S : TRUE
       IN  f[x] + SumOver(f, S \ {x})

\* C17: provide_mean_system_norm returns the sum of provide_norm() over the
\* owned systems divided by the sum of provide_norm_increment() over them, a
\* ratio of sums; it asks each system for both values exactly once, and it
\* divides without a guard: a zero sum of increments gives the non-finite
\* quotient, not an error and not a substitute value.
C17_MeanNorm ==
  lastOp = "provide_mean_system_norm" =>
    LET sumNorm == SumOver(args.provide_norm, DOMAIN eqSys)
        sumIncrement == SumOver(args.provide_norm_increment, DOMAIN eqSys)
    IN  /\ ret.outcome = "ok"
        /\ status = "ok"
        /\ \E q \in ret.value :
             /\ ret.value = {q}
             /\ q.num = sumNorm /\ q.den = sumIncrement
             /\ q.kind = "finite" <=> sumIncrement /= 0
        /\ log = [ j \in 1..(2 * NumSystems) |->
                     << "sys", equationSystemVector_[(j + 1) \div 2],
                        IF j % 2 = 1 THEN "provide_norm"
                        ELSE "provide_norm_increment" >> ]

\* Norms 1 and 3 over increments 1 and 2: the ratio of sums is 4/3, the
\* mean of the ratios 1/1 and 3/2 would be 5/4.
C17_Witness ==
  /\ lastOp = "provide_mean_system_norm"
  /\ NumSystems = 2
  /\ args.provide_norm[equationSystemVector_[1]] = 1
  /\ args.provide_norm[equationSystemVector_[2]] = 3
  /\ args.provide_norm_increment[equationSystemVector_[1]] = 1
  /\ args.provide_norm_increment[equationSystemVector_[2]] = 2
  /\ ret = Returned([ kind |-> "finite", num |-> 4, den |-> 3 ])

\* Every increment is zero and the call still returns.
C17_WitnessZero ==
  /\ lastOp = "provide_mean_system_norm"
  /\ NumSystems = 2
  /\ ret = Returned([ kind |-> "inf", num |-> 4, den |-> 0 ])

\* ---------------------------------------------------------------- C18
IsInitializeCall(e) ==
  e[1] = "sys" /\ e[3] = "initialize"

IsReport(e) ==
  e[1] = "out" /\ e[3] \in {"coupled", "decoupled"}

\* The owned systems that hold a linear system, in vector order.
WithLinsys ==
  SelectSeq(equationSystemVector_, LAMBDA id : args.linsys_[id])

\* C18: initialize calls initialize() exactly once on every owned system in
\* registration order, and only after all of them does it, when the realm
\* has overset meshes, report coupled or decoupled for exactly the systems
\* that hold a linear system; a system whose linsys_ is null is passed over
\* without an error and without ending the report for the systems after it.
C18_Initialize ==
  lastOp = "initialize" =>
    /\ status = "ok"
    /\ SelectSeq(log, IsInitializeCall) = InOrder("initialize")
    /\ Before(Where(IsInitializeCall), Where(IsReport))
    /\ SelectSeq(log, IsReport)
         = IF hasOverset_
           THEN [ j \in 1..Len(WithLinsys) |->
                    << "out", WithLinsys[j],
                       IF eqSys[WithLinsys[j]].decoupledOverset_
                       THEN "decoupled" ELSE "coupled" >> ]
           ELSE << >>

\* An overset realm, the first system without a linear system, the second
\* with one: the second is still reported, after both were initialized.
C18_Witness ==
  /\ lastOp = "initialize"
  /\ hasOverset_
  /\ NumSystems = 2
  /\ ~args.linsys_[equationSystemVector_[1]]
  /\ args.linsys_[equationSystemVector_[2]]
  /\ Len(SelectSeq(log, IsReport)) = 1
  /\ Len(SelectSeq(log, IsInitializeCall)) = 2

\* A decoupled and a coupled system in one report.
C18_WitnessBoth ==
  /\ lastOp = "initialize"
  /\ \E i, j \in DOMAIN log :
       /\ i < j
       /\ log[i][3] = "decoupled"
       /\ log[j][3] = "coupled"

\* ---------------------------------------------------------------- C19
\* The number of states the manager of the last call was constructed with.
CallKey ==
  managers[args.manager]

\* C19: for a name the Registry has no entry for under the manager's key,
\* field_exists and register_field both fail with UnknownField (field_exists
\* does not answer false), and the failed call leaves the mesh database's
\* declared fields as they were.
C19_UnknownField ==
  lastOp \in {"field_exists", "register_field"}
    /\ args.name \notin DOMAIN Registry(CallKey) =>
      /\ ret = Thrown("UnknownField")
      /\ meta_ = metaBefore

\* A registration of an unknown name that failed on a mesh database which
\* already has a field.
C19_Witness ==
  /\ lastOp = "register_field"
  /\ args.name = "acrazyqoi"
  /\ ret = Thrown("UnknownField")
  /\ DOMAIN meta_ /= {}

\* field_exists of an unknown name failing.
C19_WitnessExists ==
  /\ lastOp = "field_exists"
  /\ args.name = "acrazyqoi"
  /\ ret.outcome = "UnknownField"
  /\ DOMAIN meta_ /= {}

\* ---------------------------------------------------------------- C20
\* The register_field calls made for a name through a manager of a key.
CallsFor(key, name) ==
  { c \in registerHistory : c.key = key /\ c.name = name }

C20_WitnessFalse ==
  /\ lastOp = "field_exists"
  /\ args.name = "dual_nodal_volume"
  /\ ret = Returned(FALSE)
  /\ "velocity" \in DOMAIN meta_

\* ---------------------------------------------------------------- C21
\* What a manager of a key observes of a name on a mesh database: the
\* answer of field_exists and what get_field_ptr<T> gives for every T.
Observes(meta, key, name) ==
  [ exists |-> field_exists_in(meta, key, name),
    ptr    |-> [ T \in FieldTypes |->
                   { get_field_ptr_in(meta, key, T, name, "StateNone", ub) :
                       ub \in NullDerefOutcomes } ] ]

\* C21: managers constructed on one mesh database with differing numStates
\* are independent: a register_field through one of them changes, for no
\* name, what a manager of another key observes through field_exists or
\* get_field_ptr; managers of the same key observe the same defined fields.
C21_Independent ==
  /\ lastOp = "register_field" =>
       \A m \in DOMAIN managers, name \in KnownNames :
         managers[m] /= CallKey =>
           Observes(meta_, managers[m], name)
             = Observes(metaBefore, managers[m], name)
  /\ \A m1, m2 \in DOMAIN managers, name \in KnownNames :
       managers[m1] = managers[m2] =>
         Observes(meta_, managers[m1], name)
           = Observes(meta_, managers[m2], name)

\* The manager of three states is handed, by get_field_ptr, the field the
\* manager of two states registered.
C21_SharedField ==
  /\ lastOp = "get_field_ptr"
  /\ CallKey = 3
  /\ args.name = "velocity"
  /\ ret = Returned(Handle("velocity", "NODE_RANK", 0))
  /\ CallsFor(3, "velocity") = {}
  /\ \E c \in CallsFor(2, "velocity") : c.succeeded

\* ---------------------------------------------------------------- C22
\* A register_field call on a part set (542-547, 477-488) that returned.
RegisteredOnParts ==
  /\ lastOp = "register_field"
  /\ args.overload \in {"parts", "template"}
  /\ ret.outcome = "ok"

\* The counts the call asks for: the ones given, or the descriptor's.
AskedStates ==
  IF args.numStates = 0 THEN Registry(CallKey)[args.name].numStates
  ELSE args.numStates

\* C22: registering a name a second time through the same FieldManager on
\* another part set succeeds and creates no second field: the call gives
\* the handle of the field the first call declared, the number of declared
\* fields grew by one at the first call and not at the second, and the
\* field's component and state counts are those the first call left.
C22_RegisterAgain ==
  /\ RegisteredOnParts /\ args.name \in DOMAIN metaBefore =>
       /\ DOMAIN meta_ = DOMAIN metaBefore
       /\ ret = Returned(Handle(args.name, metaBefore[args.name].rank, 0))
       /\ meta_[args.name].numStates = metaBefore[args.name].numStates
       /\ meta_[args.name].numComponents
            = metaBefore[args.name].numComponents
       /\ metaBefore[args.name].parts \subseteq meta_[args.name].parts
  /\ RegisteredOnParts /\ args.name \notin DOMAIN metaBefore =>
       DOMAIN meta_ = DOMAIN metaBefore \cup {args.name}
  /\ lastOp = "register_field" /\ args.overload = "parts"
       /\ args.name \in DOMAIN metaBefore
       /\ metaBefore[args.name].numStates = AskedStates
       => ret.outcome = "ok"

\* A second registration of velocity that put it on one more part.
C22_Witness ==
  /\ RegisteredOnParts
  /\ args.name = "velocity"
  /\ "velocity" \in DOMAIN metaBefore
  /\ metaBefore["velocity"].parts = {"universal"}
  /\ meta_["velocity"].parts = {"universal", "block_1"}
  /\ DOMAIN meta_ = {"velocity"}

\* ---------------------------------------------------------------- C23
\* A register call for a name already on the mesh database that gives a
\* number of states other than the one the field has.
ConflictingCall ==
  /\ lastOp \in {"register_field", "register_generic_field"}
  /\ args.name \in DOMAIN metaBefore
  /\ args.numStates /= 0
  /\ args.numStates /= metaBefore[args.name].numStates

\* C23: once a name is registered, a further register_field call for it
\* with an explicit numStates that conflicts with the registered state count
\* fails with ConflictingRedefinition and leaves the field's state count,
\* component count and storage, and the mesh database, as they were.
C23_Conflict ==
  ConflictingCall =>
    /\ ret = Thrown("ConflictingRedefinition")
    /\ meta_[args.name] = metaBefore[args.name]
    /\ meta_ = metaBefore

\* dual_nodal_volume, registered with the one state of its descriptor, is
\* registered again with three states.
C23_Witness ==
  /\ ConflictingCall
  /\ args.name = "dual_nodal_volume"
  /\ args.numStates = 3
  /\ metaBefore["dual_nodal_volume"].numStates = 1
  /\ ret.outcome = "ConflictingRedefinition"

\* ---------------------------------------------------------------- C24
\* A get_field_ptr<T> call for a name that is on the mesh database.
PtrOfRegistered ==
  /\ lastOp = "get_field_ptr"
  /\ args.name \in DOMAIN meta_

\* The field has the state the call asks for.
HasState ==
  state_slot(args.state) < meta_[args.name].numStates

\* C24: get_field_ptr<T>(name, state) on a registered field fails with
\* TypeMismatch whenever T is not the type the Registry descriptor declares
\* for the name, and returns a handle only when T is that type; no
\* mismatching request is turned into a handle.
C24_TypeMismatch ==
  PtrOfRegistered =>
    LET declared == Registry(CallKey)[args.name].type
    IN  /\ args.T /= declared /\ HasState => ret = Thrown("TypeMismatch")
        /\ args.T /= declared => ret.outcome /= "ok"
        /\ ret.outcome = "ok" => args.T = declared
        /\ args.T = declared /\ HasState =>
             ret = Returned(Handle(args.name, meta_[args.name].rank,
                                   state_slot(args.state)))

\* The registered vector field velocity is asked for as a scalar field.
C24_Witness ==
  /\ PtrOfRegistered
  /\ args.name = "velocity"
  /\ args.T = "ScalarFieldType"
  /\ args.state = "StateN"
  /\ ret = Thrown("TypeMismatch")

\* The registered scalar field is asked for as what it is.
C24_WitnessHandle ==
  /\ PtrOfRegistered
  /\ args.name = "dual_nodal_volume"
  /\ args.T = "ScalarFieldType"
  /\ ret.outcome = "ok"

\* ---------------------------------------------------------------- C25
\* A pointer is asked, with the right type, for a name the Registry has but
\* that is not on the mesh database.
PtrOfUnregistered ==
  /\ lastOp \in {"get_field_ptr", "get_ngp_field_ptr"}
  /\ args.name \in DOMAIN Registry(CallKey)
  /\ args.name \notin DOMAIN meta_
  /\ lastOp = "get_field_ptr" => args.T = Registry(CallKey)[args.name].type

\* C25: for a name present in the Registry but never registered on the mesh
\* database, get_field_ptr<T> with the correct T and get_ngp_field_ptr both
\* fail with a typed error (UnknownField/NotRegistered); neither returns a
\* null handle nor dereferences a missing field.
C25_NotRegistered ==
  PtrOfUnregistered => ret.outcome \in {"UnknownField", "NotRegistered"}

\* get_ngp_field_ptr of a name never registered went through the missing
\* field and returned.
C25_NullReturned ==
  /\ PtrOfUnregistered
  /\ lastOp = "get_ngp_field_ptr"
  /\ ret = Returned(NullHandle)

\* ---------------------------------------------------------------- C26
\* What get_field_ptr<T> with the declared type gives for a state of the
\* field the last call was about, for each way the build may go.
PtrOfState(state) ==
  { get_field_ptr_in(meta_, CallKey, Registry(CallKey)[args.name].type,
                     args.name, state, ub) : ub \in NullDerefOutcomes }

\* The three states of a field of three states are three handles.
C26_ThreeStates ==
  PtrOfRegistered /\ meta_[args.name].numStates = 3 =>
    LET ptrs == UNION { PtrOfState(state) :
                          state \in {"StateNP1", "StateN", "StateNM1"} }
    IN  /\ \A p \in ptrs : p.outcome = "ok" /\ p.value /= { NullHandle }
        /\ Cardinality(ptrs) = 3

\* C26: for a field registered with 3 time-states, get_field_ptr for
\* StateNP1, StateN and StateNM1 returns three non-null handles that are
\* pairwise distinct; for a field registered with k states, asking for a
\* state slot beyond the k slots is an error and returns no handle.
C26_States ==
  /\ C26_ThreeStates
  /\ PtrOfRegistered /\ ~HasState =>
       ret.outcome \notin {"ok", "crash"}

\* StateNM1 of the two-state velocity field was asked for and a pointer to
\* nothing came back.
C26_BeyondSlots ==
  /\ PtrOfRegistered
  /\ args.name = "velocity"
  /\ meta_["velocity"].numStates = 2
  /\ args.state = "StateNM1"
  /\ ret = Returned(NullHandle)

\* The three states of the three-state velocity field were handed out.
C26_ThreeHandles ==
  /\ PtrOfRegistered
  /\ args.name = "velocity"
  /\ meta_["velocity"].numStates = 3
  /\ args.state = "StateNM1"
  /\ ret = Returned(Handle("velocity", "NODE_RANK", 2))

\* ---------------------------------------------------------------- C27
\* The mesh database's own look-up of the name of the last call at the
\* descriptor's rank: meta().get_field<T>(rank, name).
FoundOnMesh ==
  { Handle(n, Registry(CallKey)[args.name].rank, 0) :
      n \in get_field(meta_, Registry(CallKey)[args.name].rank, args.name) }

\* A call that hands the caller a field: a registration, or get_field_ptr
\* with the default state.
HandsOutField ==
  \/ lastOp \in {"register_field", "register_generic_field"}
  \/ lastOp = "get_field_ptr" /\ args.state = "StateNone"

\* For the overloads that take a part set, what a successful call returns
\* is the field the mesh database finds.
C27_OnPartSets ==
  HandsOutField /\ ret.outcome = "ok"
    /\ (lastOp = "register_field" => args.overload /= "part")
    /\ (lastOp = "get_field_ptr" => args.name \in DOMAIN meta_)
    => ret.value = FoundOnMesh /\ FoundOnMesh /= {}

\* C27: for every successfully registered name, the handle register_field
\* returned, the handle a later get_field_ptr<T>(name) with the default
\* state returns and the mesh database's own look-up of the name at the
\* descriptor's rank denote the same field, whatever was registered since.
C27_SameField ==
  HandsOutField /\ ret.outcome = "ok" /\ args.name \in DOMAIN meta_
    => ret.value = FoundOnMesh /\ FoundOnMesh /= {}

\* register_field(name, part) declared velocity and returned something
\* that is not the field.
C27_NoReturn ==
  /\ lastOp = "register_field"
  /\ args.overload = "part"
  /\ args.name = "velocity"
  /\ "velocity" \in DOMAIN meta_
  /\ ret = Returned(NullHandle)

\* ---------------------------------------------------------------- C28
\* The last call declared its name on the mesh database.
FirstRegistration ==
  /\ lastOp \in {"register_field", "register_generic_field"}
  /\ args.name \notin DOMAIN metaBefore
  /\ args.name \in DOMAIN meta_

\* C28: on first registration of a name, register_field with an explicit
\* non-zero numStates declares the field with exactly that number of
\* states, whatever the descriptor's default; numStates = 0 (and
\* numComponents = 0) means the descriptor's default; register_field<T>
\* always uses the descriptor's defaults.
C28_NumStates ==
  FirstRegistration =>
    LET def == Registry(CallKey)[args.name]
        field == meta_[args.name]
    IN  /\ args.numStates /= 0 => field.numStates = args.numStates
        /\ args.numStates = 0 => field.numStates = def.numStates
        /\ args.overload \in {"parts", "template", "part"} =>
             field.numComponents = def.numComponents
        /\ args.overload = "template" =>
             /\ field.numStates = def.numStates
             /\ field.numComponents = def.numComponents

\* dual_nodal_volume, of one state in the Registry, is first registered
\* with three states.
C28_Witness ==
  /\ FirstRegistration
  /\ args.name = "dual_nodal_volume"
  /\ args.numStates = 3
  /\ Registry(CallKey)["dual_nodal_volume"].numStates = 1
  /\ meta_["dual_nodal_volume"].numStates = 3
  /\ ret.outcome = "ok"

\* register_field<T> declared a field with the descriptor's counts.
C28_WitnessTemplate ==
  /\ FirstRegistration
  /\ args.overload = "template"
  /\ args.name = "velocity"
  /\ meta_["velocity"].numStates = CallKey

\* ---------------------------------------------------------------- C29
\* The operations of a FieldManager that register.
RegisterOps ==
  {"register_field", "register_generic_field"}

\* C29: the fields declared on a mesh database never shrink: over every
\* FieldManager operation (register_field, register_generic_field,
\* field_exists, get_field_ptr, get_ngp_field_ptr) size() does not
\* decrease, only the register operations increase it, and a name for which
\* field_exists answers true before an operation answers true after it, so
\* in every later state.
C29_NeverShrinks ==
  /\ size(metaBefore) <= size(meta_)
  /\ DOMAIN metaBefore \subseteq DOMAIN meta_
  /\ size(metaBefore) < size(meta_) => lastOp \in RegisterOps
  /\ \A m \in DOMAIN managers, name \in KnownNames :
       field_exists_in(metaBefore, managers[m], name) = Returned(TRUE)
         => field_exists_in(meta_, managers[m], name) = Returned(TRUE)

\* A registration made size() grow on a mesh database that had a field,
\* and field_exists of that field is still true.
C29_Witness ==
  /\ lastOp \in RegisterOps
  /\ size(metaBefore) > 0
  /\ size(metaBefore) < size(meta_)
  /\ "velocity" \in DOMAIN metaBefore
  /\ field_exists_in(meta_, CallKey, "velocity") = Returned(TRUE)

\* A call that registers nothing left size() where it was.
C29_WitnessQuery ==
  /\ lastOp \in {"field_exists", "get_field_ptr", "get_ngp_field_ptr"}
  /\ size(meta_) = 3
  /\ size(metaBefore) = 3

\* ---------------------------------------------------------------- C30
\* The registrations of the collection that declare fields.
FieldRegistrations ==
  {"register_nodal_fields", "register_edge_fields", "register_element_fields"}

FatalRegistrations ==
  { "register_symmetry_bc", "register_abltop_bc",
    "register_non_conformal_bc", "register_interior_algorithm" }

\* What the last call handed to the realm or to an owned system.
HandedOn ==
  SelectSeq(log, LAMBDA e : e[1] \in {"realm", "sys"})

\* C31: a registration call that fails with UnknownPart or WrongEntityRank
\* has forwarded nothing: register_symmetry_bc, register_abltop_bc,
\* register_non_conformal_bc and register_interior_algorithm validate every
\* named part and every topological subset before the first forward, so a
\* failing call leaves the realm and the owned systems with no registration
\* from that call.
C31_NothingForwarded ==
  lastOp \in FatalRegistrations
    /\ status \in {"UnknownPart", "WrongEntityRank"}
    => HandedOn = << >>

\* register_symmetry_bc threw on the second subset of a part after the
\* first subset had gone to the realm and to a system.
C31_PartlyForwarded ==
  /\ lastOp = "register_symmetry_bc"
  /\ args.targetName = "mixed"
  /\ status = "WrongEntityRank"
  /\ Len(equationSystemVector_) > 0
  /\ HandedOn = forward_bc("register_symmetry_bc", "wall_quad4")

\* ---------------------------------------------------------------- C32
\* C32: all_systems_decoupled returns false whenever the realm has no
\* overset meshes, whatever the systems' flags; with overset meshes it
\* returns true if and only if is_decoupled() is true for every owned
\* system, so one coupled system, a wrapper without a linear system
\* included, makes it false.
C32_AllDecoupled ==
  lastOp = "all_systems_decoupled" =>
    /\ ~hasOverset_ => ret = Returned(FALSE)
    /\ hasOverset_ =>
         ret = Returned(\A id \in DOMAIN eqSys : eqSys[id].decoupledOverset_)

\* An overset realm with a decoupled system and a coupled one that has no
\* linear system: false.
C32_Witness ==
  /\ lastOp = "all_systems_decoupled"
  /\ hasOverset_
  /\ NumSystems = 2
  /\ eqSys[equationSystemVector_[1]].decoupledOverset_
  /\ ~eqSys[equationSystemVector_[2]].decoupledOverset_
  /\ ~args.linsys_[equationSystemVector_[2]]
  /\ ret = Returned(FALSE)

\* An overset realm whose systems are all decoupled: true.
C32_WitnessTrue ==
  /\ lastOp = "all_systems_decoupled"
  /\ hasOverset_
  /\ NumSystems = 2
  /\ \A id \in DOMAIN eqSys : eqSys[id].decoupledOverset_
  /\ ret = Returned(TRUE)

\* A realm without overset meshes whose systems are all decoupled: false.
C32_WitnessNoOverset ==
  /\ lastOp = "all_systems_decoupled"
  /\ ~hasOverset_
  /\ NumSystems > 0
  /\ \A id \in DOMAIN eqSys : eqSys[id].decoupledOverset_
  /\ ret = Returned(FALSE)

\* Declaration k was reached by the loop of load: every earlier declaration
\* constructed its system or was passed over with a null eqSys.
ReachedByLoad(k) ==
  \A i \in 1..(k - 1) :
    \/ i \in DOMAIN eqSys
    \/ \E j \in DOMAIN log : log[j] = Ev("null", i, "load")

\* C33: for every declaration of a recognized kind that load reaches, load
\* either constructs one system and then seeds and loads it, in that
\* order, or fails with a thrown error before the seeding; it never seeds
\* or loads through an eqSys that no branch constructed.
C33_InstanceBeforeSeed ==
  lastOp = "load" =>
    \A k \in DOMAIN yaml.systems :
      (yaml.systems[k].kind \in RecognizedKinds /\ ReachedByLoad(k)) =>
        /\ \A j \in DOMAIN log : ~(log[j][1] = "null" /\ log[j][2] = k)
        /\ \/ /\ k \in DOMAIN eqSys
              /\ eqSys[k].calls = << "construct", "seed", "load" >>
           \/ /\ k \notin DOMAIN eqSys
              /\ status = "runtime_error"

\* A load that went through the seeding with no instance: HeatConduction
\* in a build without matrix-free support.
C33_NullSeeded ==
  /\ lastOp = "load"
  /\ ~NALU_HAS_MATRIXFREE
  /\ \E k \in DOMAIN yaml.systems :
       /\ yaml.systems[k].kind = "HeatConduction"
       /\ k \notin DOMAIN eqSys
       /\ \E j \in DOMAIN log : log[j] = Ev("null", k, "seed")

\* The same for LowMachEOM on a matrix-free realm.
C33_NullSeededLowMach ==
  /\ lastOp = "load"
  /\ matrixFree
  /\ ~NALU_HAS_MATRIXFREE
  /\ \E k \in DOMAIN yaml.systems :
       /\ yaml.systems[k].kind = "LowMachEOM"
       /\ k \notin DOMAIN eqSys
       /\ \E j \in DOMAIN log : log[j] = Ev("null", k, "seed")

\* C34: post_external_data_transfer_work calls the hook of that name once
\* on every owned system, in registration order, whatever the sizes of
\* the systems' bcDataAlg_.
C34_OncePerSystem ==
  lastOp = "post_external_data_transfer_work" =>
    log = for_each_system("post_external_data_transfer_work")

\* A system without boundary-condition data algorithms is passed over.
C34_SystemSkipped ==
  /\ lastOp = "post_external_data_transfer_work"
  /\ Len(equationSystemVector_) = 2
  /\ args.bcDataAlg_[equationSystemVector_[1]] = 0
  /\ args.bcDataAlg_[equationSystemVector_[2]] = 1
  /\ log = << Ev("sys", equationSystemVector_[2],
                 "post_external_data_transfer_work") >>

\* A system with two of them has the hook called twice.
C34_CalledTwice ==
  /\ lastOp = "post_external_data_transfer_work"
  /\ \E id \in DOMAIN eqSys :
       /\ args.bcDataAlg_[id] = 2
       /\ Len(SelectSeq(log, LAMBDA e : e[2] = id)) = 2

Registrations ==
  SingleNameBcs \cup
  { "register_periodic_bc", "register_non_conformal_bc",
    "register_interior_algorithm", "register_nodal_fields",
    "register_edge_fields", "register_element_fields" }

\* The call e hands an unresolved part to the realm or to a system, or is
\* made on one.
OnNullPart(e) ==
  \/ e[1] = "null"
  \/ /\ e[1] \in { "realm", "sys" }
     /\ IF e[3] = "setup_non_conformal_bc"
          THEN \E k \in DOMAIN e[4] \cup DOMAIN e[5] :
                 \/ k \in DOMAIN e[4] /\ e[4][k] = "null"
                 \/ k \in DOMAIN e[5] /\ e[5][k] = "null"
          ELSE e[4] = "null"

\* C35: no registration hands an unresolved part to the realm or to an
\* owned system or calls through one; a field registration that hands its
\* part vector on has found every target name in the mesh database.
C35_NoNullPart ==
  lastOp \in Registrations =>
    /\ \A j \in DOMAIN log : ~OnNullPart(log[j])
    /\ ( lastOp \in { "register_nodal_fields", "register_edge_fields",
                      "register_element_fields" }
         /\ HandedOn /= << >> )
         => \A k \in DOMAIN args.targetNames : Resolved(args.targetNames[k])

\* register_non_conformal_bc gave the realm a vector holding a null part and
\* then asked the null part for its subsets.
C35_NullPassedOn ==
  /\ lastOp = "register_non_conformal_bc"
  /\ ~Resolved(args.currentPartNameVec_[1])
  /\ \E j \in DOMAIN log :
       /\ log[j][1] = "realm"
       /\ log[j][3] = "setup_non_conformal_bc"
       /\ log[j][4] = << "null" >>
  /\ \E j \in DOMAIN log : log[j][1] = "null" /\ log[j][3] = "subsets"

\* The field registrations and the other members hand on found parts only.
C35_FieldsResolved ==
  /\ lastOp = "register_nodal_fields"
  /\ Len(args.targetNames) = 2
  /\ HandedOn /= << >>

\* C36: a wall, inflow, open, symmetry or ABL-top registration that returns
\* normally for an existing part of side rank has forwarded the boundary
\* condition to the realm and to every owned system at least once, also
\* when the named part has no topological subsets.
C36_ForwardedOnReturn ==
  ( /\ lastOp \in SingleNameBcs
    /\ status = "ok"
    /\ Resolved(args.targetName)
    /\ HasRank(args.targetName, side_rank) )
    => /\ \E j \in DOMAIN Forwarded : Forwarded[j][1] = "realm"
       /\ \A k \in DOMAIN equationSystemVector_ :
            \E j \in DOMAIN Forwarded :
              /\ Forwarded[j][1] = "sys"
              /\ Forwarded[j][2] = equationSystemVector_[k]

\* A symmetry registration on a face part without subsets returned normally
\* and forwarded nothing to the realm or to the two owned systems.
C36_NothingForwarded ==
  /\ lastOp = "register_symmetry_bc"
  /\ status = "ok"
  /\ Resolved(args.targetName)
  /\ HasRank(args.targetName, side_rank)
  /\ MeshParts[args.targetName].subsets = << >>
  /\ Len(equationSystemVector_) = 2
  /\ log = << >>

\* On a face part with subsets the same call reached the realm and both
\* systems.
C36_ForwardedWithSubsets ==
  /\ lastOp = "register_symmetry_bc"
  /\ status = "ok"
  /\ HasRank(args.targetName, side_rank)
  /\ MeshParts[args.targetName].subsets /= << >>
  /\ Len(equationSystemVector_) = 2
  /\ Len(Forwarded) = 6

\* The last call was the templated register_field<T> and it failed because
\* T is not the type the Registry declares for the name.
TemplateTypeMismatch ==
  /\ lastOp = "register_field"
  /\ args.overload = "template"
  /\ ret.outcome = "TypeMismatch"

\* C37: a templated register_field<T> call that fails with TypeMismatch
\* leaves the mesh database as it was: the named field is neither declared
\* nor attached to a part by the call, and field_exists(name) answers after
\* the call what it answered before.
C37_MismatchLeavesMeta ==
  TemplateTypeMismatch =>
    /\ meta_ = metaBefore
    /\ field_exists_in(meta_, managers[args.manager], args.name)
         = field_exists_in(metaBefore, managers[args.manager], args.name)

\* The failed call declared a field the mesh database did not hold before:
\* field_exists turned from false to true.
C37_DeclaredByFailedCall ==
  /\ TemplateTypeMismatch
  /\ args.name \notin DOMAIN metaBefore
  /\ args.name \in DOMAIN meta_
  /\ field_exists_in(metaBefore, managers[args.manager], args.name)
       = Returned(FALSE)
  /\ field_exists_in(meta_, managers[args.manager], args.name)
       = Returned(TRUE)

\* C38: with no owned system solve_and_update still runs the collection's
\* own pre_iter_work and post_iter_work once each, calls no system hook and
\* returns true; with owned systems the value returned is decided by the
\* systems' system_is_converged() answers of that call alone, whatever the
\* overset setting, the registered algorithms and the memory diagnostic.
C38_EmptyCollection ==
  lastOp = "solve_and_update" =>
    /\ equationSystemVector_ = << >> =>
         /\ Cardinality(Where(IsEqsPre)) = 1
         /\ Cardinality(Where(IsEqsPost)) = 1
         /\ Where(IsSys) = {}
         /\ overallConvergence
    /\ equationSystemVector_ /= << >> =>
         overallConvergence = ~(\E id \in DOMAIN converged : ~converged[id])

\* solve_and_update ran on an empty collection with a registered
\* pre-iteration algorithm and returned true.
C38_Witness ==
  /\ lastOp = "solve_and_update"
  /\ equationSystemVector_ = << >>
  /\ preIterAlgDriver_ /= << >>
  /\ log[1] = Ev("eqs", 0, "pre_iter_work")
  /\ overallConvergence

\* With two systems, the second answering false, the call returned false.
C38_WitnessUnconverged ==
  /\ lastOp = "solve_and_update"
  /\ Len(equationSystemVector_) = 2
  /\ converged[equationSystemVector_[1]]
  /\ ~converged[equationSystemVector_[2]]
  /\ ~overallConvergence
====
